---------------------------- MODULE Spec2Model ----------------------------
(***************************************************************************)
(* javorszky/form3takehome: the accounts client library.                   *)
(*                                                                         *)
(* The module models                                                       *)
(*   - the per-country validation of a Resource, in the two versions the   *)
(*     repository holds: the list-and-join version                         *)
(*     (pkg/client/validation.go) and the version refactored into chained  *)
(*     helper checks (suffix R below);                                     *)
(*   - the envelope codec (marshalPayload, unmarshalPayload,               *)
(*     unmarshalMultiPayload) over a structural model of JSON documents;   *)
(*   - the four client operations Create, Fetch, List and Delete, each as  *)
(*     a call that runs up to the HTTP round trip, a transport step, and   *)
(*     the rest of the call.                                               *)
(*                                                                         *)
(* A Go string that a regular expression inspects (BankID, AccountNumber)  *)
(* is a sequence of one-character strings; every other Go string is a      *)
(* TLA+ string.  The empty Go string is <<>> for the former and "" for the *)
(* latter.                                                                 *)
(***************************************************************************)
EXTENDS Integers, Sequences, FiniteSets, TLC

VARIABLES
    vaccount,   \* validation: the Resource handed to ValidateResource
    verr,       \* validation: what ValidateResource (list-and-join) returned
    verrR,      \* validation: what ValidateResource (chained helpers) returned
    vdone,      \* validation: TRUE once a record has been validated
    cstep,      \* codec: "start", then which functions have run
    cp,         \* codec: the Payload handed to marshalPayload
    creader,    \* codec: the io.Reader: what marshalPayload returned, or a body
    cmerr,      \* codec: the error marshalPayload returned
    cgot,       \* codec: what unmarshalPayload returned (Payload, error)
    cgotMulti,  \* codec: what unmarshalMultiPayload returned (MultiPayload, error)
    kclient,    \* client: the Client
    kpc,        \* client: "new" before New, then where the running call is:
                \*         "idle", "validated", "do", "return", "done"
    kop,        \* client: the operation called
    karg,       \* client: its argument
    kid,        \* client: the ID Create generated
    krequests,  \* client: the requests the call handed to the HTTP client
    kresp,      \* client: what HttpClient.Do returned
    kdecoded,   \* client: TRUE once the call has read and decoded the body
    kret,       \* client: what the call returned
    sstore,     \* service: the data objects it holds, in the order they came
    tpayloads,  \* integration test: the payloads Create returned for the
                \*         resources not deleted since
    tdeleted,   \* integration test: the IDs Delete was called for, with the
                \*         version Create returned, and not created since
    gpc,        \* goroutines: where the call of each is: "idle", "done", or
                \*         "running" before its statement n; and whether a
                \*         statement of the call ran while another call ran
    gfn,        \* goroutines: the function each has called
    garg,       \* goroutines: its argument
    glocal,     \* goroutines: the local variables of the call
    gret,       \* goroutines: what the call returned
    hpc,        \* headers: where Client.do is: "new", "made", "decorated", "sent"
    hnow,       \* headers: what time.Now returns, in hours
    hpayload,   \* headers: the payload Client.do was called with
    hreq,       \* headers: the *http.Request
    hsent       \* headers: the bytes the HTTP client read from the request's body

vvars == <<vaccount, verr, verrR, vdone>>

cvars == <<cstep, cp, creader, cmerr, cgot, cgotMulti>>

kvars == <<kclient, kpc, kop, karg, kid, krequests, kresp, kdecoded, kret>>

svars == <<sstore, tpayloads, tdeleted>>

gvars == <<gpc, gfn, garg, glocal, gret>>

hvars == <<hpc, hnow, hpayload, hreq, hsent>>

vars == <<vvars, cvars, kvars, svars, gvars, hvars>>

-----------------------------------------------------------------------------
(* Bounds of the model.                                                    *)

\* longest BankID tried (the longest accepted one has 11 digits)
MaxBankIDLen == 12
\* longest AccountNumber tried (the longest accepted one has 17 digits)
MaxAccountLen == 18

-----------------------------------------------------------------------------
(* Errors.  A Go error is nil or carries a message; the message is kept as *)
(* the sequence of its parts, one per violation, in the order the text     *)
(* holds them.                                                             *)

nil == [isNil |-> TRUE, parts |-> <<>>]

errorsNew(parts) == [isNil |-> FALSE, parts |-> parts]

\* what fmt's %w prints for a nil operand: "%!w(<nil>)"
NilVerb == "%!w(<nil>)"

\* fmt.Errorf("<msg>: %w", e): the message, then the text of e
Errorf(msg, e) ==
    errorsNew(<<msg>> \o (IF e.isNil THEN <<NilVerb>> ELSE e.parts))

-----------------------------------------------------------------------------
(* Regular expressions.  Every pattern of the package is anchored and is   *)
(* an optional leading character class followed by lo..hi digits.          *)

Digit == {"0", "1", "2", "3", "4", "5", "6", "7", "8", "9"}

NonZeroDigit == Digit \ {"0"}

Re(lead, lo, hi) == [lead |-> lead, lo |-> lo, hi |-> hi]

\* regexp.MatchString for the anchored patterns ^lead\d{lo,hi}$
MatchString(re, s) ==
    /\ Len(s) - Len(re.lead) \in re.lo .. re.hi
    /\ \A i \in 1 .. Len(re.lead) : s[i] \in re.lead[i]
    /\ \A i \in (Len(re.lead) + 1) .. Len(s) : s[i] \in Digit

reThreeDigits == Re(<<>>, 3, 3)
reFiveDigits == Re(<<>>, 5, 5)
reSixDigits == Re(<<>>, 6, 6)
reSevenDigits == Re(<<>>, 7, 7)
reEightDigits == Re(<<>>, 8, 8)
reNineDigits == Re(<<>>, 9, 9)
reTenDigits == Re(<<>>, 10, 10)
reElevenDigits == Re(<<>>, 11, 11)
reTwelveDigits == Re(<<>>, 12, 12)
reThirteenDigits == Re(<<>>, 13, 13)
reSixteenDigits == Re(<<>>, 16, 16)
reAUAccountNumber == Re(<<NonZeroDigit>>, 5, 9)
reCARoutingNumber == Re(<<{"0"}>>, 8, 8)
reCAAccountNumber == Re(<<>>, 7, 12)
reHKAccountNumber == Re(<<>>, 9, 12)
reUSAccountNumber == Re(<<>>, 6, 17)

-----------------------------------------------------------------------------
(* The bank ID codes.                                                      *)

GBBankID == "GBDSC"
AUBankID == "AUBSB"
BEBankID == "BE"
CABankID == "CACPA"
FRBankID == "FR"
DEBankID == "DEBLZ"
GRBankID == "GRBIC"
HKBankID == "HKNCC"
ITBankID == "ITNCC"
LUBankID == "LULUX"
PLBankID == "PLKNR"
PTBankID == "PTNCC"
ESBankID == "ESNCC"
CHBankID == "CHBCC"
USBankID == "USABA"

-----------------------------------------------------------------------------
(* Violation messages.  Each message of the package names the field it is  *)
(* about; the model keeps that field's name as the message.                *)

MsgBankID == "bank id"
MsgBIC == "BIC"
MsgBankIDCode == "bank ID code"
MsgAccountNumber == "account number"
MsgIBAN == "IBAN"
MsgCountry == "unsupported country code"

\* a fail-fast variant: only the first failed check is recorded
AppendIfFirst(errs, cond, msg) == IF cond /\ errs = <<>> THEN Append(errs, msg) ELSE errs

\* errs = append(errs, msg) when cond holds
AppendIf(errs, cond, msg) == IF cond THEN Append(errs, msg) ELSE errs

\* the tail of every validateXX of the list-and-join version: nil for an empty
\* errs, else errors.New(strings.Join(errs, ", ")), whose text holds every
\* element of errs in order
JoinErrs(errs) == IF Len(errs) = 0 THEN nil ELSE errorsNew(errs)


-----------------------------------------------------------------------------
(* Validation, list-and-join version (pkg/client/validation.go): every     *)
(* validateXX appends one message per failed check to errs and returns nil *)
(* for an empty errs, the joined messages otherwise.                       *)

validateGB(account) ==
    LET e1 == AppendIf(<<>>, ~MatchString(reSixDigits, account.BankID), MsgBankID)
        e2 == AppendIf(e1, account.BIC = "", MsgBIC)
        e3 == AppendIf(e2, account.BankIDCode # "GBDSC", MsgBankIDCode)
        e4 == AppendIf(e3, account.AccountNumber # <<>> /\ ~MatchString(reEightDigits, account.AccountNumber), MsgAccountNumber)
    IN  JoinErrs(e4)

validateAU(account) ==
    LET e1 == AppendIf(<<>>, account.BankID # <<>> /\ ~MatchString(reSixDigits, account.BankID), MsgBankID)
        e2 == AppendIf(e1, account.BIC = "", MsgBIC)
        e3 == AppendIf(e2, account.BankIDCode # "AUBSB", MsgBankIDCode)
        e4 == AppendIf(e3, account.AccountNumber # <<>> /\ ~MatchString(reAUAccountNumber, account.AccountNumber), MsgAccountNumber)
        e5 == AppendIf(e4, account.IBAN # "", MsgIBAN)
    IN  JoinErrs(e5)

validateBE(account) ==
    LET e1 == AppendIf(<<>>, ~MatchString(reThreeDigits, account.BankID), MsgBankID)
        e2 == AppendIf(e1, account.BankIDCode # "BE", MsgBankIDCode)
        e3 == AppendIf(e2, account.AccountNumber # <<>> /\ ~MatchString(reSevenDigits, account.AccountNumber), MsgAccountNumber)
    IN  JoinErrs(e3)

validateCA(account) ==
    LET e1 == AppendIf(<<>>, account.BankID # <<>> /\ ~MatchString(reCARoutingNumber, account.BankID), MsgBankID)
        e2 == AppendIf(e1, account.BIC = "", MsgBIC)
        e3 == AppendIf(e2, account.BankIDCode # "" /\ account.BankIDCode # "CACPA", MsgBankIDCode)
        e4 == AppendIf(e3, account.AccountNumber # <<>> /\ ~MatchString(reCAAccountNumber, account.AccountNumber), MsgAccountNumber)
        e5 == AppendIf(e4, account.IBAN # "", MsgIBAN)
    IN  JoinErrs(e5)

validateFR(account) ==
    LET e1 == AppendIf(<<>>, ~MatchString(reTenDigits, account.BankID), MsgBankID)
        e2 == AppendIf(e1, account.BankIDCode # "FR", MsgBankIDCode)
        e3 == AppendIf(e2, account.AccountNumber # <<>> /\ ~MatchString(reTenDigits, account.AccountNumber), MsgAccountNumber)
    IN  JoinErrs(e3)

validateDE(account) ==
    LET e1 == AppendIf(<<>>, ~MatchString(reEightDigits, account.BankID), MsgBankID)
        e2 == AppendIf(e1, account.BankIDCode # "DEBLZ", MsgBankIDCode)
        e3 == AppendIf(e2, account.AccountNumber # <<>> /\ ~MatchString(reSevenDigits, account.AccountNumber), MsgAccountNumber)
    IN  JoinErrs(e3)

validateGR(account) ==
    LET e1 == AppendIf(<<>>, ~MatchString(reSevenDigits, account.BankID), MsgBankID)
        e2 == AppendIf(e1, account.BankIDCode # "GRBIC", MsgBankIDCode)
        e3 == AppendIf(e2, account.AccountNumber # <<>> /\ ~MatchString(reSixteenDigits, account.AccountNumber), MsgAccountNumber)
    IN  JoinErrs(e3)

validateHK(account) ==
    LET e1 == AppendIf(<<>>, ~MatchString(reThreeDigits, account.BankID), MsgBankID)
        e2 == AppendIf(e1, account.BIC = "", MsgBIC)
        e3 == AppendIf(e2, account.BankIDCode # "HKNCC", MsgBankIDCode)
        e4 == AppendIf(e3, account.AccountNumber # <<>> /\ ~MatchString(reHKAccountNumber, account.AccountNumber), MsgAccountNumber)
        e5 == AppendIf(e4, account.IBAN # "", MsgIBAN)
    IN  JoinErrs(e5)

\* accountPresent is set only inside the branch that reports a bad account
\* number, so a well-formed account number leaves reAccount at ten digits
validateIT(account) ==
    LET accountBad == account.AccountNumber # <<>> /\ ~MatchString(reTwelveDigits, account.AccountNumber)
        accountPresent == accountBad
        e1 == AppendIf(<<>>, accountBad, MsgAccountNumber)
        reAccount == IF accountPresent THEN reElevenDigits ELSE reTenDigits
        e2 == AppendIf(e1, ~MatchString(reAccount, account.BankID), MsgBankID)
        e3 == AppendIf(e2, account.BankIDCode # "ITNCC", MsgBankIDCode)
    IN  JoinErrs(e3)

validateLU(account) ==
    LET e1 == AppendIf(<<>>, ~MatchString(reThreeDigits, account.BankID), MsgBankID)
        e2 == AppendIf(e1, account.BankIDCode # "LULUX", MsgBankIDCode)
        e3 == AppendIf(e2, account.AccountNumber # <<>> /\ ~MatchString(reThirteenDigits, account.AccountNumber), MsgAccountNumber)
    IN  JoinErrs(e3)

validateNL(account) ==
    LET e1 == AppendIf(<<>>, account.BankID # <<>>, MsgBankID)
        e2 == AppendIf(e1, account.BIC = "", MsgBIC)
        e3 == AppendIf(e2, account.BankIDCode # "", MsgBankIDCode)
        e4 == AppendIf(e3, account.AccountNumber # <<>> /\ ~MatchString(reTenDigits, account.AccountNumber), MsgAccountNumber)
    IN  JoinErrs(e4)

validatePL(account) ==
    LET e1 == AppendIf(<<>>, ~MatchString(reEightDigits, account.BankID), MsgBankID)
        e2 == AppendIf(e1, account.BankIDCode # "PLKNR", MsgBankIDCode)
        e3 == AppendIf(e2, account.AccountNumber # <<>> /\ ~MatchString(reSixteenDigits, account.AccountNumber), MsgAccountNumber)
    IN  JoinErrs(e3)

validatePT(account) ==
    LET e1 == AppendIf(<<>>, ~MatchString(reEightDigits, account.BankID), MsgBankID)
        e2 == AppendIf(e1, account.BankIDCode # "PTNCC", MsgBankIDCode)
        e3 == AppendIf(e2, account.AccountNumber # <<>> /\ ~MatchString(reElevenDigits, account.AccountNumber), MsgAccountNumber)
    IN  JoinErrs(e3)

validateES(account) ==
    LET e1 == AppendIf(<<>>, ~MatchString(reEightDigits, account.BankID), MsgBankID)
        e2 == AppendIf(e1, account.BankIDCode # "ESNCC", MsgBankIDCode)
        e3 == AppendIf(e2, account.AccountNumber # <<>> /\ ~MatchString(reTenDigits, account.AccountNumber), MsgAccountNumber)
    IN  JoinErrs(e3)

validateCH(account) ==
    LET e1 == AppendIf(<<>>, ~MatchString(reFiveDigits, account.BankID), MsgBankID)
        e2 == AppendIf(e1, account.BankIDCode # "CHBCC", MsgBankIDCode)
        e3 == AppendIf(e2, account.AccountNumber # <<>> /\ ~MatchString(reTwelveDigits, account.AccountNumber), MsgAccountNumber)
    IN  JoinErrs(e3)

validateUS(account) ==
    LET e1 == AppendIf(<<>>, ~MatchString(reNineDigits, account.BankID), MsgBankID)
        e2 == AppendIf(e1, account.BIC = "", MsgBIC)
        e3 == AppendIf(e2, account.BankIDCode # "USABA", MsgBankIDCode)
        e4 == AppendIf(e3, account.AccountNumber # <<>> /\ ~MatchString(reUSAccountNumber, account.AccountNumber), MsgAccountNumber)
        e5 == AppendIf(e4, account.IBAN # "", MsgIBAN)
    IN  JoinErrs(e5)

\* the switch on account.Country; no case matches: return nil
ValidateResource(account) ==
    CASE account.Country = "GB" -> validateGB(account)
      [] account.Country = "AU" -> validateAU(account)
      [] account.Country = "BE" -> validateBE(account)
      [] account.Country = "CA" -> validateCA(account)
      [] account.Country = "FR" -> validateFR(account)
      [] account.Country = "DE" -> validateDE(account)
      [] account.Country = "GR" -> validateGR(account)
      [] account.Country = "HK" -> validateHK(account)
      [] account.Country = "IT" -> validateIT(account)
      [] account.Country = "LU" -> validateLU(account)
      [] account.Country = "NL" -> validateNL(account)
      [] account.Country = "PL" -> validatePL(account)
      [] account.Country = "PT" -> validatePT(account)
      [] account.Country = "ES" -> validateES(account)
      [] account.Country = "CH" -> validateCH(account)
      [] account.Country = "US" -> validateUS(account)
      [] OTHER -> nil

-----------------------------------------------------------------------------
(* Validation, version refactored into chained helper checks.  A helper    *)
(* takes the Resource and the error so far and returns the Resource with   *)
(* either the error so far or a new error that wraps it.                   *)

\* a variant that asks for the BIC of confirmed accounts only
bicRequiredOfConfirmed(r, e) ==
    IF r.BIC = "" /\ r.Status = "confirmed" THEN <<r, Errorf(MsgBIC, e)>> ELSE <<r, e>>

bicRequired(r, e) ==
    IF r.BIC = "" THEN <<r, Errorf(MsgBIC, e)>> ELSE <<r, e>>

\* a variant that lets every IBAN pass
ibanNotSupportedIgnored(r, e) ==
    <<r, e>>

ibanNotSupported(r, e) ==
    IF r.IBAN # "" THEN <<r, Errorf(MsgIBAN, e)>> ELSE <<r, e>>

\* a variant that lets every bank ID pass
bankIDNotSupportedIgnored(r, e) ==
    <<r, e>>

bankIDNotSupported(r, e) ==
    IF r.BankID # <<>> THEN <<r, Errorf(MsgBankID, e)>> ELSE <<r, e>>

\* a variant that lets an empty bank ID code pass
bankIDCodeMustOrEmpty(r, e, bankIDCode) ==
    IF r.BankIDCode \notin {"", bankIDCode} THEN <<r, Errorf(MsgBankIDCode, e)>> ELSE <<r, e>>

bankIDCodeMust(r, e, bankIDCode) ==
    IF r.BankIDCode # bankIDCode THEN <<r, Errorf(MsgBankIDCode, e)>> ELSE <<r, e>>

bankIDCodeOptionalMust(r, e, bankIDCode) ==
    IF r.BankIDCode # "" /\ r.BankIDCode # bankIDCode
    THEN <<r, Errorf(MsgBankIDCode, e)>>
    ELSE <<r, e>>

bankIDRequiredMust(r, e, pattern) ==
    IF ~MatchString(pattern, r.BankID) THEN <<r, Errorf(MsgBankID, e)>> ELSE <<r, e>>

bankIDOptionalMust(r, e, pattern) ==
    IF r.BankID # <<>> /\ ~MatchString(pattern, r.BankID)
    THEN <<r, Errorf(MsgBankID, e)>>
    ELSE <<r, e>>

accountNumberOptionalMust(r, e, pattern) ==
    IF r.AccountNumber # <<>> /\ ~MatchString(pattern, r.AccountNumber)
    THEN <<r, Errorf(MsgAccountNumber, e)>>
    ELSE <<r, e>>

validateGBR(account) ==
    LET s1 == bicRequired(account, nil)
        s2 == bankIDRequiredMust(s1[1], s1[2], reSixDigits)
        s3 == bankIDCodeMust(s2[1], s2[2], GBBankID)
        s4 == accountNumberOptionalMust(s3[1], s3[2], reEightDigits)
    IN  s4[2]

\* a variant of the Australian rule set that holds the bank ID to the
\* pattern of the account number
validateAURLong(account) ==
    LET s1 == LET b == bicRequired(account, nil) IN ibanNotSupported(b[1], b[2])
        s2 == bankIDOptionalMust(s1[1], s1[2], reAUAccountNumber)
        s3 == bankIDCodeMust(s2[1], s2[2], AUBankID)
        s4 == accountNumberOptionalMust(s3[1], s3[2], reAUAccountNumber)
    IN  s4[2]

validateAUR(account) ==
    LET s1 == LET b == bicRequired(account, nil) IN ibanNotSupported(b[1], b[2])
        s2 == bankIDOptionalMust(s1[1], s1[2], reSixDigits)
        s3 == bankIDCodeMust(s2[1], s2[2], AUBankID)
        s4 == accountNumberOptionalMust(s3[1], s3[2], reAUAccountNumber)
    IN  s4[2]

validateBER(account) ==
    LET s1 == bankIDRequiredMust(account, nil, reThreeDigits)
        s2 == bankIDCodeMust(s1[1], s1[2], BEBankID)
        s3 == accountNumberOptionalMust(s2[1], s2[2], reSevenDigits)
    IN  s3[2]

validateCAR(account) ==
    LET s1 == LET b == bicRequired(account, nil) IN ibanNotSupported(b[1], b[2])
        s2 == bankIDOptionalMust(s1[1], s1[2], reCARoutingNumber)
        s3 == bankIDCodeOptionalMust(s2[1], s2[2], CABankID)
        s4 == accountNumberOptionalMust(s3[1], s3[2], reCAAccountNumber)
    IN  s4[2]

validateFRR(account) ==
    LET s1 == bankIDRequiredMust(account, nil, reTenDigits)
        s2 == bankIDCodeMust(s1[1], s1[2], FRBankID)
        s3 == accountNumberOptionalMust(s2[1], s2[2], reTenDigits)
    IN  s3[2]

validateDER(account) ==
    LET s1 == bankIDRequiredMust(account, nil, reEightDigits)
        s2 == bankIDCodeMust(s1[1], s1[2], DEBankID)
        s3 == accountNumberOptionalMust(s2[1], s2[2], reSevenDigits)
    IN  s3[2]

validateGRR(account) ==
    LET s1 == bankIDRequiredMust(account, nil, reSevenDigits)
        s2 == bankIDCodeMust(s1[1], s1[2], GRBankID)
        s3 == accountNumberOptionalMust(s2[1], s2[2], reSixteenDigits)
    IN  s3[2]

validateHKR(account) ==
    LET s1 == LET b == bicRequired(account, nil) IN ibanNotSupported(b[1], b[2])
        s2 == bankIDOptionalMust(s1[1], s1[2], reThreeDigits)
        s3 == bankIDCodeOptionalMust(s2[1], s2[2], HKBankID)
        s4 == accountNumberOptionalMust(s3[1], s3[2], reHKAccountNumber)
    IN  s4[2]

validateITR(account) ==
    LET accountPresent == account.AccountNumber # <<>>
        accErr == IF accountPresent /\ ~MatchString(reTwelveDigits, account.AccountNumber)
                  THEN errorsNew(<<MsgAccountNumber>>)
                  ELSE nil
        reAccount == IF accountPresent THEN reElevenDigits ELSE reTenDigits
        s1 == bankIDRequiredMust(account, accErr, reAccount)
        s2 == bankIDCodeMust(s1[1], s1[2], ITBankID)
    IN  s2[2]

validateLUR(account) ==
    LET s1 == bankIDRequiredMust(account, nil, reThreeDigits)
        s2 == bankIDCodeMust(s1[1], s1[2], LUBankID)
        s3 == accountNumberOptionalMust(s2[1], s2[2], reThirteenDigits)
    IN  s3[2]

\* a variant of the Dutch rule set that does not ask for a BIC
validateNLRNoBIC(account) ==
    LET s1 == bankIDNotSupported(account, nil)
        s2 == bankIDCodeMust(s1[1], s1[2], "")
        s3 == accountNumberOptionalMust(s2[1], s2[2], reTenDigits)
    IN  s3[2]

validateNLR(account) ==
    LET s1 == LET b == bankIDNotSupported(account, nil) IN bicRequired(b[1], b[2])
        s2 == bankIDCodeMust(s1[1], s1[2], "")
        s3 == accountNumberOptionalMust(s2[1], s2[2], reTenDigits)
    IN  s3[2]

validatePLR(account) ==
    LET s1 == bankIDRequiredMust(account, nil, reEightDigits)
        s2 == bankIDCodeMust(s1[1], s1[2], PLBankID)
        s3 == accountNumberOptionalMust(s2[1], s2[2], reSixteenDigits)
    IN  s3[2]

validatePTR(account) ==
    LET s1 == bankIDRequiredMust(account, nil, reEightDigits)
        s2 == bankIDCodeMust(s1[1], s1[2], PTBankID)
        s3 == accountNumberOptionalMust(s2[1], s2[2], reElevenDigits)
    IN  s3[2]

validateESR(account) ==
    LET s1 == bankIDRequiredMust(account, nil, reEightDigits)
        s2 == bankIDCodeMust(s1[1], s1[2], ESBankID)
        s3 == accountNumberOptionalMust(s2[1], s2[2], reTenDigits)
    IN  s3[2]

validateCHR(account) ==
    LET s1 == bankIDRequiredMust(account, nil, reFiveDigits)
        s2 == bankIDCodeMust(s1[1], s1[2], CHBankID)
        s3 == accountNumberOptionalMust(s2[1], s2[2], reTwelveDigits)
    IN  s3[2]

validateUSR(account) ==
    LET s1 == LET b == bicRequired(account, nil) IN ibanNotSupported(b[1], b[2])
        s2 == accountNumberOptionalMust(s1[1], s1[2], reUSAccountNumber)
        s3 == bankIDCodeMust(s2[1], s2[2], USBankID)
        s4 == bankIDRequiredMust(s3[1], s3[2], reNineDigits)
    IN  s4[2]

\* the switch on account.Country; no case matches: the unsupported-country error
ValidateResourceR(account) ==
    CASE account.Country = "GB" -> validateGBR(account)
      [] account.Country = "AU" -> validateAUR(account)
      [] account.Country = "BE" -> validateBER(account)
      [] account.Country = "CA" -> validateCAR(account)
      [] account.Country = "FR" -> validateFRR(account)
      [] account.Country = "DE" -> validateDER(account)
      [] account.Country = "GR" -> validateGRR(account)
      [] account.Country = "HK" -> validateHKR(account)
      [] account.Country = "IT" -> validateITR(account)
      [] account.Country = "LU" -> validateLUR(account)
      [] account.Country = "NL" -> validateNLR(account)
      [] account.Country = "PL" -> validatePLR(account)
      [] account.Country = "PT" -> validatePTR(account)
      [] account.Country = "ES" -> validateESR(account)
      [] account.Country = "CH" -> validateCHR(account)
      [] account.Country = "US" -> validateUSR(account)
      [] OTHER -> errorsNew(<<MsgCountry>>)

-----------------------------------------------------------------------------
(* The Resource struct and the records the validation is run on.           *)

EmptyName == <<"", "", "", "">>

EmptyAlternativeNames == <<"", "", "">>

\* Resource{}: every field at its zero value
ZeroResource ==
    [Country |-> "", BaseCurrency |-> "", BankID |-> <<>>, BankIDCode |-> "",
     AccountNumber |-> <<>>, BIC |-> "", IBAN |-> "", CustomerID |-> "",
     Name |-> EmptyName, AlternativeNames |-> EmptyAlternativeNames,
     AccountClassification |-> "", JointAccount |-> FALSE,
     AccountMatchingOptOut |-> FALSE, SecondaryIdentification |-> "",
     Switched |-> FALSE, Status |-> ""]

SupportedCountries ==
    {"GB", "AU", "BE", "CA", "FR", "DE", "GR", "HK",
     "IT", "LU", "NL", "PL", "PT", "ES", "CH", "US"}

\* the countries tried: the sixteen supported ones, one that is not, and none
Countries == SupportedCountries \cup {"HU", ""}

BankIDCodeOf(c) ==
    CASE c = "GB" -> GBBankID [] c = "AU" -> AUBankID [] c = "BE" -> BEBankID
      [] c = "CA" -> CABankID [] c = "FR" -> FRBankID [] c = "DE" -> DEBankID
      [] c = "GR" -> GRBankID [] c = "HK" -> HKBankID [] c = "IT" -> ITBankID
      [] c = "LU" -> LUBankID [] c = "PL" -> PLBankID [] c = "PT" -> PTBankID
      [] c = "ES" -> ESBankID [] c = "CH" -> CHBankID [] c = "US" -> USBankID
      [] OTHER -> ""

\* the bank ID codes tried for country c: none, the country's own, and
\* another country's
BankIDCodes(c) == {"", BankIDCodeOf(c), IF c = "GB" THEN CABankID ELSE GBBankID}

\* the string of n characters that starts with lead and is all digits, but
\* for its last character when last is not a digit
Str(n, lead, last) ==
    [i \in 1 .. n |-> IF i = n /\ last \notin Digit THEN last
                      ELSE IF i = 1 THEN lead ELSE "2"]

\* the strings tried, of up to max characters: all digits without and with a
\* leading zero, and digits with a letter at the end
Strs(max) ==
    {Str(n, v[1], v[2]) : n \in 0 .. max, v \in {<<"1", "7">>, <<"0", "7">>, <<"1", "a">>}}

BankIDs == Strs(MaxBankIDLen)

AccountNumbers == Strs(MaxAccountLen)

bicExample == "BARCGB22XXX"

ibanExample == "GB33BUKB20201555555555"

-----------------------------------------------------------------------------
(* JSON documents.  A document is a record with one field, named after   *)
(* its type, that holds its value; an object is a function from the keys  *)
(* it holds to documents, an array a sequence of documents.  A body that   *)
(* does not start with a well-formed JSON value (the empty body, text that *)
(* is not JSON) has the type "invalid"; a body that holds a well-formed    *)
(* JSON value and, after it, text that is not white space has the type     *)
(* "trailing".                                                             *)

JNull == [null |-> "null"]

JString(s) == [string |-> s]

JNumber(n) == [number |-> n]

JBool(b) == [bool |-> b]

JArray(a) == [array |-> a]

JObject(o) == [object |-> o]

Invalid(text) == [invalid |-> text]

Trailing(doc, text) == [trailing |-> [first |-> doc, rest |-> text]]

TypeOf(j) == CHOOSE t \in DOMAIN j : TRUE

ValueOf(j) == j[TypeOf(j)]

\* the value an object holds under a key; encoding/json leaves a field
\* alone both when its key is absent and when its value is null
Get(o, k) == IF k \in DOMAIN o THEN o[k] ELSE JNull

\* a byte sequence that is not valid UTF-8, and what encoding/json writes
\* and reads in its place (U+FFFD)
BadUTF8 == "\\xff"

ReplacementChar == "\\ufffd"

ToValidUTF8(s) == IF s = BadUTF8 THEN ReplacementChar ELSE s

-----------------------------------------------------------------------------
(* time.Time: the instant, the location and whether the value carries a    *)
(* monotonic clock reading.  A location is its name and its offset as      *)
(* RFC 3339 prints it.  The text of a time is the instant and the zone.    *)

UTC == [name |-> "UTC", offset |-> "+00:00"]

\* the zone of the process
Local == [name |-> "Local", offset |-> "+00:00"]

FixedZone(name, offset) == [name |-> name, offset |-> offset]

ZeroInstant == "0001-01-01T00:00:00"

testTime == "2020-05-06T09:28:13.843"

\* an instant json cannot render: Time.MarshalJSON wants a year in 0..9999
YearTenThousand == "10000-01-01T00:00:00"

\* time.Time{}
ZeroTime == [instant |-> ZeroInstant, loc |-> UTC, mono |-> FALSE]

IsRFC3339(s) == s.zone \in {"Z", "+00:00", "+01:00"}

\* Time.MarshalJSON: RFC 3339 with the location's offset, "Z" for offset 0;
\* the location's name and the monotonic reading are not written
timeMarshalJSON(t) ==
    [instant |-> t.instant,
     zone |-> IF t.loc.offset = "+00:00" THEN "Z" ELSE t.loc.offset]

timeEncodable(t) == t.instant # YearTenThousand

\* Time.UnmarshalJSON (time.Parse with RFC 3339): "Z" gives UTC, the offset
\* of the process's zone gives Local, any other offset an unnamed fixed zone
timeUnmarshalJSON(s) ==
    [instant |-> s.instant,
     loc |-> IF s.zone = "Z" THEN UTC
             ELSE IF s.zone = Local.offset THEN Local
             ELSE FixedZone("", s.zone),
     mono |-> FALSE]

-----------------------------------------------------------------------------
(* The structs of resource.go.  Each field table lists, per field, the Go  *)
(* name, the json key, the kind of its type and whether the tag says       *)
(* omitempty.  Kinds: "string", "digits" (a string kept as a sequence of   *)
(* characters), "bool", "int", "names" (a fixed-size array of strings) and *)
(* "time".                                                                 *)

Field(go, key, kind, omitempty) ==
    [go |-> go, key |-> key, kind |-> kind, omitempty |-> omitempty]

ResourceFields ==
    {Field("Country", "country", "string", FALSE),
     Field("BaseCurrency", "base_currency", "string", TRUE),
     Field("BankID", "bank_id", "digits", TRUE),
     Field("BankIDCode", "bank_id_code", "string", TRUE),
     Field("AccountNumber", "account_number", "digits", TRUE),
     Field("BIC", "bic", "string", TRUE),
     Field("IBAN", "iban", "string", TRUE),
     Field("CustomerID", "customer_id", "string", TRUE),
     Field("Name", "name", "names", FALSE),
     Field("AlternativeNames", "alternative_names", "names", TRUE),
     Field("AccountClassification", "account_classification", "string", TRUE),
     Field("JointAccount", "joint_account", "bool", TRUE),
     Field("AccountMatchingOptOut", "account_matching_opt_out", "bool", TRUE),
     Field("SecondaryIdentification", "secondary_identification", "string", TRUE),
     Field("Switched", "switched", "bool", TRUE),
     Field("Status", "status", "string", FALSE)}

\* the fields of Data but Attributes, which is a struct of its own
DataFields ==
    {Field("ID", "id", "string", FALSE),
     Field("OrganisationID", "organisation_id", "string", FALSE),
     Field("Type", "type", "string", FALSE),
     Field("Version", "version", "int", FALSE),
     Field("CreatedOn", "created_on", "time", FALSE),
     Field("ModifiedOn", "modified_on", "time", FALSE)}

LinksFields ==
    {Field("Self", "self", "string", FALSE),
     Field("First", "first", "string", TRUE),
     Field("Next", "next", "string", TRUE),
     Field("Last", "last", "string", TRUE)}

\* Data{}
ZeroData ==
    [ID |-> "", OrganisationID |-> "", Type |-> "", Version |-> 0,
     CreatedOn |-> ZeroTime, ModifiedOn |-> ZeroTime, Attributes |-> ZeroResource]

\* Links{}
ZeroLinks == [Self |-> "", First |-> "", Next |-> "", Last |-> ""]

\* Payload{}
ZeroPayload == [Data |-> ZeroData, Links |-> ZeroLinks]

\* a []Data: nil, or a slice with its elements
NilSlice == [isNil |-> TRUE, elems |-> <<>>]

Slice(elems) == [isNil |-> FALSE, elems |-> elems]

\* MultiPayload{}
ZeroMultiPayload == [Data |-> NilSlice, Links |-> ZeroLinks]

-----------------------------------------------------------------------------
(* encoding/json, as marshalPayload and the two unmarshal functions use    *)
(* it on these structs.                                                    *)

\* the JSON value of a field of the given kind
encodeValue(kind, v) ==
    CASE kind = "string" -> JString(ToValidUTF8(v))
      [] kind = "digits" -> JString([i \in DOMAIN v |-> ToValidUTF8(v[i])])
      [] kind = "bool"   -> JBool(v)
      [] kind = "int"    -> JNumber(v)
      [] kind = "names"  -> JArray([i \in DOMAIN v |-> JString(ToValidUTF8(v[i]))])
      [] kind = "time"   -> JString(timeMarshalJSON(v))

\* omitempty's notion of empty: false, 0, and a string or an array of length
\* 0.  A [4]string or [3]string has length 4 or 3 and a struct is never
\* empty.
isEmptyValue(kind, v) ==
    CASE kind = "string" -> v = ""
      [] kind = "digits" -> v = <<>>
      [] kind = "bool"   -> v = FALSE
      [] kind = "int"    -> v = 0
      [] kind = "names"  -> Len(v) = 0
      [] kind = "time"   -> FALSE

\* the keys written for the struct value s: every field's, but those tagged
\* omitempty whose value is empty
keysWritten(fields, s) ==
    {f.key : f \in {g \in fields : ~(g.omitempty /\ isEmptyValue(g.kind, s[g.go]))}}

fieldOfKey(fields, k) == CHOOSE f \in fields : f.key = k

fieldOfName(fields, n) == CHOOSE f \in fields : f.go = n

\* the JSON object of a struct whose fields the table lists
encodeStruct(fields, s) ==
    [k \in keysWritten(fields, s) |->
        encodeValue(fieldOfKey(fields, k).kind, s[fieldOfKey(fields, k).go])]

encodeResource(r) == JObject(encodeStruct(ResourceFields, r))

encodeLinks(l) == JObject(encodeStruct(LinksFields, l))

encodeData(d) ==
    JObject(encodeStruct(DataFields, d) @@ [attributes |-> encodeResource(d.Attributes)])

\* the JSON of a Payload; the omitempty on Links, a struct, omits nothing
encodePayload(p) ==
    JObject([data |-> encodeData(p.Data), links |-> encodeLinks(p.Links)])

\* a reader that was never set
NoReader == [nil |-> "nil"]

MarshalerError == errorsNew(<<"json: error calling MarshalJSON for type time.Time">>)

\* a variant that leaves the links out of the encoded payload
marshalPayloadNoLinks(r) ==
    IF timeEncodable(r.Data.CreatedOn) /\ timeEncodable(r.Data.ModifiedOn)
    THEN <<JObject([data |-> encodeData(r.Data)]), nil>>
    ELSE <<NoReader, Errorf("marshalPayload", MarshalerError)>>

\* marshalPayload: the io.Reader holding the encoded payload, and the error
marshalPayload(r) ==
    IF timeEncodable(r.Data.CreatedOn) /\ timeEncodable(r.Data.ModifiedOn)
    THEN <<encodePayload(r), nil>>
    ELSE <<NoReader, Errorf("marshalPayload", MarshalerError)>>

\* whether the JSON value j decodes into a field of the given kind without
\* an error; null always does
valueOK(kind, j, old) ==
    \/ TypeOf(j) = "null"
    \/ CASE kind \in {"string", "digits"} -> TypeOf(j) = "string"
         [] kind = "bool"  -> TypeOf(j) = "bool"
         [] kind = "int"   -> TypeOf(j) = "number"
         [] kind = "names" ->
                /\ TypeOf(j) = "array"
                /\ \A i \in 1 .. Len(ValueOf(j)) :
                      i <= Len(old) => TypeOf(ValueOf(j)[i]) \in {"null", "string"}
         [] kind = "time"  -> TypeOf(j) = "string" /\ IsRFC3339(ValueOf(j))

\* the value of a field of the given kind after decoding the JSON value j
\* into it; old is the value the field had
decodeValue(kind, j, old) ==
    CASE kind = "string" -> IF TypeOf(j) = "string" THEN ToValidUTF8(ValueOf(j)) ELSE old
      [] kind = "digits" ->
            IF TypeOf(j) = "string" THEN [i \in DOMAIN ValueOf(j) |-> ToValidUTF8(ValueOf(j)[i])] ELSE old
      [] kind = "bool"   -> IF TypeOf(j) = "bool" THEN ValueOf(j) ELSE old
      [] kind = "int"    -> IF TypeOf(j) = "number" THEN ValueOf(j) ELSE old
      [] kind = "names"  ->
            IF TypeOf(j) = "array"
            THEN [i \in DOMAIN old |->
                     IF i > Len(ValueOf(j)) THEN ""
                     ELSE IF TypeOf(ValueOf(j)[i]) = "string" THEN ToValidUTF8(ValueOf(ValueOf(j)[i]))
                     ELSE old[i]]
            ELSE old
      [] kind = "time"   ->
            IF TypeOf(j) = "string" /\ IsRFC3339(ValueOf(j)) THEN timeUnmarshalJSON(ValueOf(j)) ELSE old

\* whether j decodes into a struct without an error: null, or an object
\* whose known keys hold values of their fields' kinds (unknown keys are
\* skipped)
structOK(fields, zero, j) ==
    \/ TypeOf(j) = "null"
    \/ /\ TypeOf(j) = "object"
       /\ \A f \in fields : valueOK(f.kind, Get(ValueOf(j), f.key), zero[f.go])

\* the struct after decoding j into its zero value
decodeStruct(fields, zero, j) ==
    IF TypeOf(j) = "object"
    THEN [n \in {f.go : f \in fields} |->
            decodeValue(fieldOfName(fields, n).kind,
                        Get(ValueOf(j), fieldOfName(fields, n).key), zero[n])]
    ELSE [n \in {f.go : f \in fields} |-> zero[n]]

attributesOf(j) == IF TypeOf(j) = "object" THEN Get(ValueOf(j), "attributes") ELSE JNull

dataOK(j) ==
    /\ structOK(DataFields, ZeroData, j)
    /\ structOK(ResourceFields, ZeroResource, attributesOf(j))

decodeData(j) ==
    decodeStruct(DataFields, ZeroData, j)
       @@ [Attributes |-> decodeStruct(ResourceFields, ZeroResource, attributesOf(j))]

linksOf(j) == IF TypeOf(j) = "object" THEN Get(ValueOf(j), "links") ELSE JNull

dataOf(j) == IF TypeOf(j) = "object" THEN Get(ValueOf(j), "data") ELSE JNull

SyntaxError == errorsNew(<<"json: not a JSON value">>)

UnmarshalTypeError == errorsNew(<<"json: cannot unmarshal">>)

\* Decoder.Decode reads the next JSON value of the stream and leaves what
\* follows it unread: the one call of Decode never sees the text after the
\* value
readValue(r) == IF TypeOf(r) = "trailing" THEN ValueOf(r).first ELSE r

\* json.NewDecoder(r).Decode(&p) for a Payload: the value and the error
decodePayload(r) ==
    LET body == readValue(r)
    IN  IF TypeOf(body) = "invalid" THEN <<ZeroPayload, SyntaxError>>
        ELSE IF TypeOf(body) \notin {"null", "object"} THEN <<ZeroPayload, UnmarshalTypeError>>
        ELSE <<[Data |-> decodeData(dataOf(body)),
                Links |-> decodeStruct(LinksFields, ZeroLinks, linksOf(body))],
               IF dataOK(dataOf(body)) /\ structOK(LinksFields, ZeroLinks, linksOf(body))
               THEN nil ELSE UnmarshalTypeError>>

\* the []Data after decoding j into a nil slice
decodeSlice(j) ==
    IF TypeOf(j) = "array" THEN Slice([i \in DOMAIN ValueOf(j) |-> decodeData(ValueOf(j)[i])]) ELSE NilSlice

sliceOK(j) ==
    \/ TypeOf(j) = "null"
    \/ TypeOf(j) = "array" /\ \A i \in DOMAIN ValueOf(j) : dataOK(ValueOf(j)[i])

\* json.NewDecoder(r).Decode(&mp) for a MultiPayload
decodeMultiPayload(r) ==
    LET body == readValue(r)
    IN  IF TypeOf(body) = "invalid" THEN <<ZeroMultiPayload, SyntaxError>>
        ELSE IF TypeOf(body) \notin {"null", "object"} THEN <<ZeroMultiPayload, UnmarshalTypeError>>
        ELSE <<[Data |-> decodeSlice(dataOf(body)),
                Links |-> decodeStruct(LinksFields, ZeroLinks, linksOf(body))],
               IF sliceOK(dataOf(body)) /\ structOK(LinksFields, ZeroLinks, linksOf(body))
               THEN nil ELSE UnmarshalTypeError>>

ErrDataEmpty ==
    errorsNew(<<"unmarshalPayload: Data is empty on the decoded Payload">>)

ErrAttributesEmpty ==
    errorsNew(<<"unmarshalPayload: Data.Attributes is empty on the decoded Payload">>)

ErrNoData ==
    errorsNew(<<"unmarshalMultiPayload: there is no Data on the decoded MultiPayload">>)

ErrMissingFields ==
    errorsNew(<<"unmarshalMultiPayload: Data structs are missing required fields">>)

\* a variant that checks Data.Attributes before Data
unmarshalPayloadAttributesFirst(r) ==
    LET p == decodePayload(r)[1]
        err == decodePayload(r)[2]
    IN  IF ~err.isNil THEN <<ZeroPayload, Errorf("unmarshalPayload", err)>>
        ELSE IF p.Data.Attributes = ZeroResource THEN <<ZeroPayload, ErrAttributesEmpty>>
        ELSE IF p.Data = ZeroData THEN <<ZeroPayload, ErrDataEmpty>>
        ELSE <<p, nil>>

\* a variant without the check of Data.Attributes
unmarshalPayloadDataOnly(r) ==
    LET p == decodePayload(r)[1]
        err == decodePayload(r)[2]
    IN  IF ~err.isNil THEN <<ZeroPayload, Errorf("unmarshalPayload", err)>>
        ELSE IF p.Data = ZeroData THEN <<ZeroPayload, ErrDataEmpty>>
        ELSE <<p, nil>>

\* unmarshalPayload: the Payload and the error
unmarshalPayload(r) ==
    LET p == decodePayload(r)[1]
        err == decodePayload(r)[2]
    IN  IF ~err.isNil THEN <<ZeroPayload, Errorf("unmarshalPayload", err)>>
        ELSE IF p.Data = ZeroData THEN <<ZeroPayload, ErrDataEmpty>>
        ELSE IF p.Data.Attributes = ZeroResource THEN <<ZeroPayload, ErrAttributesEmpty>>
        ELSE <<p, nil>>

\* a variant that takes a slice without elements for a missing one
unmarshalMultiPayloadLen(r) ==
    LET mp == decodeMultiPayload(r)[1]
        err == decodeMultiPayload(r)[2]
    IN  IF ~err.isNil THEN <<ZeroMultiPayload, Errorf("unmarshalMultiPayload", err)>>
        ELSE IF Len(mp.Data.elems) = 0 THEN <<ZeroMultiPayload, ErrNoData>>
        ELSE IF \E i \in DOMAIN mp.Data.elems :
                    mp.Data.elems[i].Attributes = ZeroResource
             THEN <<ZeroMultiPayload, ErrMissingFields>>
        ELSE <<mp, nil>>

\* a variant that checks the attributes of the first element only
unmarshalMultiPayloadFirst(r) ==
    LET mp == decodeMultiPayload(r)[1]
        err == decodeMultiPayload(r)[2]
    IN  IF ~err.isNil THEN <<ZeroMultiPayload, Errorf("unmarshalMultiPayload", err)>>
        ELSE IF mp.Data.isNil THEN <<ZeroMultiPayload, ErrNoData>>
        ELSE IF /\ Len(mp.Data.elems) > 0
                /\ mp.Data.elems[1].Attributes = ZeroResource
             THEN <<ZeroMultiPayload, ErrMissingFields>>
        ELSE <<mp, nil>>

\* unmarshalMultiPayload: the MultiPayload and the error
unmarshalMultiPayload(r) ==
    LET mp == decodeMultiPayload(r)[1]
        err == decodeMultiPayload(r)[2]
    IN  IF ~err.isNil THEN <<ZeroMultiPayload, Errorf("unmarshalMultiPayload", err)>>
        ELSE IF mp.Data.isNil THEN <<ZeroMultiPayload, ErrNoData>>
        ELSE IF \E i \in DOMAIN mp.Data.elems :
                    mp.Data.elems[i].Attributes = ZeroResource
             THEN <<ZeroMultiPayload, ErrMissingFields>>
        ELSE <<mp, nil>>

-----------------------------------------------------------------------------
(* The payloads handed to marshalPayload and the bodies handed to the two  *)
(* unmarshal functions.                                                    *)

\* a Resource with every field set (testdata/payload.json)
FullResource ==
    [Country |-> "GB", BaseCurrency |-> "GBP",
     BankID |-> <<"4", "0", "0", "3", "0", "0">>, BankIDCode |-> GBBankID,
     AccountNumber |-> <<"1", "2", "3", "4", "5", "6", "7", "8">>,
     BIC |-> bicExample, IBAN |-> ibanExample, CustomerID |-> "anuuidv4again",
     Name |-> <<"line1", "line2", "line3", "line4">>,
     AlternativeNames |-> <<"altname1", "altname2", "altname3">>,
     AccountClassification |-> "cop", JointAccount |-> TRUE,
     AccountMatchingOptOut |-> TRUE, SecondaryIdentification |-> "some custom name",
     Switched |-> TRUE, Status |-> "confirmed"]

\* the record the tests of Create send
MinimalResource ==
    [ZeroResource EXCEPT !.Country = "GB", !.BankIDCode = GBBankID, !.BIC = "bic",
                         !.BankID = <<"1", "2", "3", "4", "5", "6">>]

CodecResources ==
    {FullResource, MinimalResource, ZeroResource,
     [FullResource EXCEPT !.JointAccount = FALSE, !.AccountMatchingOptOut = FALSE,
                          !.Switched = FALSE],
     [FullResource EXCEPT !.BIC = BadUTF8],
     [FullResource EXCEPT !.Name = <<"line1", BadUTF8, "line3", "line4">>]}

Time(instant, loc, mono) == [instant |-> instant, loc |-> loc, mono |-> mono]

\* the times tried: the zero time, a parsed UTC time, the same instant as
\* time.Now() gives it (monotonic reading) in UTC and in the local zone, in
\* the named zone GMT, in a named and in an unnamed zone one hour east, and
\* a time json cannot render
Times ==
    {ZeroTime,
     Time(testTime, UTC, FALSE),
     Time(testTime, UTC, TRUE),
     Time(testTime, Local, TRUE),
     Time(testTime, FixedZone("GMT", "+00:00"), FALSE),
     Time(testTime, FixedZone("CET", "+01:00"), FALSE),
     Time(testTime, FixedZone("", "+01:00"), FALSE),
     Time(YearTenThousand, UTC, FALSE)}

testID == "a6c1a721-bb1b-41ef-bd11-800a1309ff9b"

\* the IDs uuid.NewRandom brings
UUIDs == {testID, "ad27e265-9605-4b4b-a0e5-3003ea9cc4dc"}

testOrganisationID == "7442ea6b-164a-4818-b470-d98abfbc24ae"

typeAccounts == "accounts"

FullLinks ==
    [Self |-> "https://selflink.com/resource", First |-> "https://firstlink.com/resource",
     Next |-> "https://nextlink.com/resource", Last |-> "https://lastlink.com/resource"]

LinksTried == {ZeroLinks, [ZeroLinks EXCEPT !.Self = "https://selflink.com/resource"], FullLinks}

Payloads ==
    {[Data |-> [ID |-> id, OrganisationID |-> testOrganisationID, Type |-> typeAccounts,
                Version |-> v, CreatedOn |-> c, ModifiedOn |-> m, Attributes |-> a],
      Links |-> l] :
        id \in {"", testID}, v \in {0, 1}, c \in Times, m \in Times,
        a \in CodecResources, l \in LinksTried}

EmptyObject == JObject([k \in {} |-> JNull])

\* {"data": d}
DataDoc(d) == JObject([data |-> d])

\* {"id":"no attributes yet"}
IDOnly == JObject([id |-> JString("no attributes yet")])

\* a data object with the given attributes
WithAttributes(a) == JObject([id |-> JString(testID), attributes |-> a])

\* attributes that are present and hold zero values only
ZeroValuedAttributes ==
    JObject([country |-> JString(""), name |-> JArray(<<JString("")>>),
             joint_account |-> JBool(FALSE), bank_id |-> JNull])

\* a data object as the service renders it, with its times in the given zone
ServiceData(zone) ==
    JObject([created_on |-> JString([instant |-> testTime, zone |-> zone]),
             modified_on |-> JString([instant |-> testTime, zone |-> zone])]
            @@ ValueOf(encodeData([ZeroData EXCEPT !.ID = testID, !.Type = typeAccounts,
                                                   !.Attributes = FullResource])))

\* the data objects a body is built from: complete ones, one with the
\* minimal attributes, and ones whose attributes decode to the zero Resource
DataObjects ==
    {ServiceData("Z"), WithAttributes(encodeResource(MinimalResource)),
     IDOnly, WithAttributes(EmptyObject)}

\* the bodies with one resource, or none
SingleBodies ==
    {Invalid(""), Invalid("not a json"), JNull, EmptyObject,
     JString("text"), JArray(<<>>),
     JObject([error |-> JString("a string, but not something that can become a Payload")]),
     JObject([links |-> encodeLinks(FullLinks)]),
     DataDoc(JNull), DataDoc(EmptyObject), DataDoc(JString("not a json array")),
     DataDoc(JObject([randomkey |-> JString("notdata")])),
     DataDoc(WithAttributes(JNull)), DataDoc(WithAttributes(ZeroValuedAttributes)),
     DataDoc(WithAttributes(JString("text"))),
     DataDoc(JObject([id |-> JNumber(1), attributes |-> encodeResource(FullResource)])),
     DataDoc(JObject([attributes |-> encodeResource(MinimalResource)])),
     DataDoc(JObject([created_on |-> JString([instant |-> "yesterday", zone |-> ""]),
                      attributes |-> encodeResource(FullResource)])),
     DataDoc(ServiceData("+00:00")), DataDoc(ServiceData("+01:00")),
     JObject([data |-> ServiceData("Z"), links |-> encodeLinks(FullLinks)]),
     Trailing(DataDoc(ServiceData("Z")), "}"), Trailing(EmptyObject, "not a json"),
     Trailing(DataDoc(JArray(<<ServiceData("Z")>>)), "}")}
      \cup {DataDoc(d) : d \in DataObjects}

\* most elements tried in the data array of a body
MaxData == 3

DataArrays == UNION {[1 .. n -> DataObjects] : n \in 0 .. MaxData}

\* the bodies with an array of resources
MultiBodies ==
    {DataDoc(JArray(a)) : a \in DataArrays}
      \cup {DataDoc(JArray(<<JString("not an object")>>)),
            JObject([data |-> JArray(<<ServiceData("Z")>>), links |-> encodeLinks(FullLinks)])}

Bodies == SingleBodies \cup MultiBodies

-----------------------------------------------------------------------------
(* The client.  A request is what Client.do hands to the HTTP client; the  *)
(* outcome of the round trip is an error or a response.                    *)

acceptHeaderValue == "application/vnd.api+json"

createEndpoint == "/v1/organisation/accounts"

listEndpoint == "/v1/organisation/accounts?page[number]=%d&page[size]=%d"

fetchEndpoint == "/v1/organisation/accounts/%s"

deleteEndpoint == "/v1/organisation/accounts/%s?version=%d"

StatusOK == 200

StatusCreated == 201

StatusNoContent == 204

\* fmt.Sprintf(format, args...): the format and what fills its verbs
Sprintf(format, args) == [format |-> format, args |-> args]

\* a base URL http.NewRequestWithContext cannot parse (TestClient_CreateBadURL)
BadURL == "http://a b.com"

\* New(cfg, c, gmt), but for the HTTP client and the date location
New(url, organisationID) == [BaseURL |-> url, OrganisationID |-> organisationID]

NoRequest == [method |-> "", url |-> Sprintf("", <<>>), header |-> {}, body |-> NoReader]

\* addHeaders: the names of the headers the request carries; Content-Type
\* and Content-Length when the request has a body of at least one byte
\* (every encoded payload has)
addHeaders(c, r) ==
    [r EXCEPT !.header =
        IF r.body = NoReader THEN {"Host", "Date", "Accept"}
        ELSE {"Host", "Date", "Accept", "Content-Type", "Content-Length"}]

ErrParseURL == errorsNew(<<"parse: invalid character in host name">>)

\* Client.do up to the call of HttpClient.Do: the request to send, or the
\* error of http.NewRequestWithContext
do(c, method, endpoint, payload) ==
    IF c.BaseURL = BadURL
    THEN <<NoRequest, Errorf("client.do http.NewRequestWithContext", ErrParseURL)>>
    ELSE <<addHeaders(c, [method |-> method, url |-> Sprintf("%s%s", <<c.BaseURL, endpoint>>),
                          header |-> {}, body |-> payload]),
           nil>>

NoResponse == [err |-> nil, StatusCode |-> 0, Body |-> NoReader]

\* what HttpClient.Do returns when the round trip fails or times out
ErrTransport == errorsNew(<<"context deadline exceeded (Client.Timeout exceeded)">>)

\* the rest of Client.do: the error of HttpClient.Do wrapped, or nil
doError(resp) ==
    IF resp.err.isNil THEN nil ELSE Errorf("client.do httpClient.Do", resp.err)

\* fmt.Errorf with the status code in the message
StatusErrorf(msg, code) == errorsNew(<<msg, ToString(code)>>)

ErrRandom == errorsNew(<<"uuid: random source failed">>)

\* the requestPayload Create builds
\* a variant that leaves the organisation ID out of the payload
requestPayloadNoOrganisation(c, id, account) ==
    [Data |-> [ZeroData EXCEPT !.ID = id, !.Type = typeAccounts, !.Attributes = account],
     Links |-> ZeroLinks]

requestPayload(c, id, account) ==
    [Data |-> [ZeroData EXCEPT !.ID = id, !.OrganisationID = c.OrganisationID,
                               !.Type = typeAccounts, !.Attributes = account],
     Links |-> ZeroLinks]

\* the records handed to Create: one that passes validation, one that fails
\* it (no BIC), a complete one, one of a country that is not served, and one
\* whose BIC is not valid UTF-8
CreateAccounts ==
    {MinimalResource, [MinimalResource EXCEPT !.BIC = ""], FullResource,
     [ZeroResource EXCEPT !.Country = "HU"], [MinimalResource EXCEPT !.BIC = BadUTF8]}

\* the bodies a response carries
ResponseBodies ==
    {Invalid(""), Invalid("not a json"),
     JObject([error |-> JString("a string, but not something that can become a Payload")]),
     DataDoc(IDOnly), DataDoc(ServiceData("Z")),
     DataDoc(JArray(<<>>)), DataDoc(JArray(<<ServiceData("Z")>>)),
     DataDoc(JArray(<<ServiceData("Z"), IDOnly>>)), DataDoc(JString("not a json array")),
     JObject([data |-> JArray(<<ServiceData("Z")>>), links |-> encodeLinks(FullLinks)])}

\* the status codes a response carries: the three the operations expect, and
\* 303, 404 and 409
StatusCodes == {StatusOK, StatusCreated, StatusNoContent, 303, 404, 409}

-----------------------------------------------------------------------------
(* The state before any operation has run.                                 *)

VInit ==
    /\ vaccount = ZeroResource
    /\ verr = nil
    /\ verrR = nil
    /\ vdone = FALSE

CInit ==
    /\ cstep = "start"
    /\ cp = ZeroPayload
    /\ creader = NoReader
    /\ cmerr = nil
    /\ cgot = <<ZeroPayload, nil>>
    /\ cgotMulti = <<ZeroMultiPayload, nil>>

\* no client has been made and no call
KInit ==
    /\ kclient = [BaseURL |-> "", OrganisationID |-> ""]
    /\ kpc = "new"
    /\ kop = ""
    /\ karg = <<>>
    /\ kid = ""
    /\ krequests = <<>>
    /\ kresp = NoResponse
    /\ kdecoded = FALSE
    /\ kret = [value |-> ZeroPayload, err |-> nil]

\* the service starts with a clean slate (README, client integration), and
\* payloadsHelper empty
SInit ==
    /\ sstore = <<>>
    /\ tpayloads = {}
    /\ tdeleted = {}

\* most goroutines that call the functions at the same time
MaxGoroutines == 2

Goroutines == 1 .. MaxGoroutines

At(state, n, mixed) == [state |-> state, n |-> n, mixed |-> mixed]

\* no goroutine has called anything
GInit ==
    /\ gpc = [g \in Goroutines |-> At("idle", 0, FALSE)]
    /\ gfn = [g \in Goroutines |-> ""]
    /\ garg = [g \in Goroutines |-> <<>>]
    /\ glocal = [g \in Goroutines |-> [value |-> <<>>, err |-> nil]]
    /\ gret = [g \in Goroutines |-> <<>>]

\* Client.do has made no request
HInit ==
    /\ hpc = "new"
    /\ hnow = 0
    /\ hpayload = NoReader
    /\ hreq = NoRequest
    /\ hsent = <<>>

Init == VInit /\ CInit /\ KInit /\ SInit /\ GInit /\ HInit

-----------------------------------------------------------------------------
(* Validation as a state machine: one record is handed to both versions of *)
(* ValidateResource.                                                       *)

Validate ==
    /\ ~vdone
    /\ \E country \in Countries, b \in BankIDs, n \in AccountNumbers,
          bic \in {"", bicExample}, iban \in {"", ibanExample} :
          \E k \in BankIDCodes(country) :
             LET r == [ZeroResource EXCEPT !.Country = country, !.BankID = b,
                                           !.BankIDCode = k, !.AccountNumber = n,
                                           !.BIC = bic, !.IBAN = iban]
             IN  /\ vaccount' = r
                 /\ verr' = ValidateResource(r)
                 /\ verrR' = ValidateResourceR(r)
    /\ vdone' = TRUE
    /\ UNCHANGED <<cvars, kvars, svars, gvars, hvars>>

VNext == Validate

SpecValidate == Init /\ [][VNext]_vars

-----------------------------------------------------------------------------
(* The codec as a state machine: a payload is marshalled and the result    *)
(* unmarshalled, or a body is read and unmarshalled as a Payload or as a   *)
(* MultiPayload.                                                           *)

MarshalPayload ==
    /\ cstep = "start"
    /\ \E p \in Payloads :
          /\ cp' = p
          /\ creader' = marshalPayload(p)[1]
          /\ cmerr' = marshalPayload(p)[2]
    /\ cstep' = "marshalled"
    /\ UNCHANGED <<cgot, cgotMulti, vvars, kvars, svars, gvars, hvars>>

ReadBody ==
    /\ cstep = "start"
    /\ \E b \in Bodies : creader' = b
    /\ cstep' = "read"
    /\ UNCHANGED <<cp, cmerr, cgot, cgotMulti, vvars, kvars, svars, gvars, hvars>>

\* unmarshalPayload on what marshalPayload returned, when it returned no error
UnmarshalMarshalled ==
    /\ cstep = "marshalled"
    /\ cmerr.isNil
    /\ cgot' = unmarshalPayload(creader)
    /\ cstep' = "roundtrip"
    /\ UNCHANGED <<cp, creader, cmerr, cgotMulti, vvars, kvars, svars, gvars, hvars>>

UnmarshalPayload ==
    /\ cstep = "read"
    /\ cgot' = unmarshalPayload(creader)
    /\ cstep' = "payload"
    /\ UNCHANGED <<cp, creader, cmerr, cgotMulti, vvars, kvars, svars, gvars, hvars>>

UnmarshalMultiPayload ==
    /\ cstep = "read"
    /\ cgotMulti' = unmarshalMultiPayload(creader)
    /\ cstep' = "multipayload"
    /\ UNCHANGED <<cp, creader, cmerr, cgot, vvars, kvars, svars, gvars, hvars>>

CNext ==
    \/ MarshalPayload
    \/ ReadBody
    \/ UnmarshalMarshalled
    \/ UnmarshalPayload
    \/ UnmarshalMultiPayload

SpecCodec == Init /\ [][CNext]_vars

-----------------------------------------------------------------------------
(* The client as a state machine.  A call runs up to HttpClient.Do, the    *)
(* HTTP client answers with an error or a response, and the call runs to   *)
(* its return.  Create is two steps up to the round trip: the validation,  *)
(* then the marshalling and sending.  A new call starts when none runs.    *)

\* New: the client is made, with a base URL that parses or one that does
\* not
NewClient ==
    /\ kpc = "new"
    /\ \E url \in {"http://127.0.0.1:8080", BadURL} : kclient' = New(url, "orgid")
    /\ kpc' = "idle"
    /\ UNCHANGED <<kop, karg, kid, krequests, kresp, kdecoded, kret, vvars, cvars, svars, gvars, hvars>>

Idle == kpc \in {"idle", "done"}

\* the call of operation o with argument a starts
Begin(o, a) ==
    /\ kop' = o
    /\ karg' = a
    /\ kresp' = NoResponse
    /\ kdecoded' = FALSE

\* what stands for the result of Delete, which returns an error only
NoValue == "none"

\* the call returns value and err
Return(value, err) ==
    /\ kret' = [value |-> value, err |-> err]
    /\ kpc' = "done"

\* Client.do, lines 252-257: the request is handed to HttpClient.Do
Send(req) ==
    /\ krequests' = Append(krequests, req)
    /\ kpc' = "do"

\* a variant that does not look at the result of the validation
CreateValidateIgnored ==
    /\ Idle
    /\ \E account \in CreateAccounts, uuidErr \in {nil, ErrRandom} :
          /\ Begin("Create", account)
          /\ IF ~uuidErr.isNil
             THEN kid' = "" /\ Return(ZeroPayload, Errorf("client.Create new uuid", uuidErr))
             ELSE /\ \E id \in UUIDs : kid' = id
                  /\ kpc' = "validated"
                  /\ kret' = [value |-> ZeroPayload, err |-> nil]
    /\ krequests' = <<>>
    /\ UNCHANGED <<kclient, vvars, cvars, svars, gvars, hvars>>

\* Create, lines 49-57: the new ID and the validation of the record
CreateValidate ==
    /\ Idle
    /\ \E account \in CreateAccounts, uuidErr \in {nil, ErrRandom} :
          /\ Begin("Create", account)
          /\ IF ~uuidErr.isNil
             THEN kid' = "" /\ Return(ZeroPayload, Errorf("client.Create new uuid", uuidErr))
             ELSE /\ \E id \in UUIDs : kid' = id
                  /\ IF ~ValidateResource(account).isNil
                     THEN Return(ZeroPayload, Errorf("client.Create", ValidateResource(account)))
                     ELSE kpc' = "validated" /\ kret' = [value |-> ZeroPayload, err |-> nil]
    /\ krequests' = <<>>
    /\ UNCHANGED <<kclient, vvars, cvars, svars, gvars, hvars>>

\* Create, lines 59-76: the payload is built, marshalled and sent
CreateSend ==
    /\ kpc = "validated"
    /\ LET jsonPayload == marshalPayload(requestPayload(kclient, kid, karg))
           request == do(kclient, "POST", createEndpoint, jsonPayload[1])
       IN  IF ~jsonPayload[2].isNil
           THEN Return(ZeroPayload, Errorf("client.Create", jsonPayload[2]))
                   /\ UNCHANGED krequests
           ELSE IF ~request[2].isNil
           THEN Return(ZeroPayload, Errorf("client.Create", request[2]))
                   /\ UNCHANGED krequests
           ELSE Send(request[1]) /\ UNCHANGED kret
    /\ UNCHANGED <<kclient, kop, karg, kid, kresp, kdecoded, vvars, cvars, svars, gvars, hvars>>

\* List, lines 93-98
ListSend ==
    /\ Idle
    /\ \E pageNumber \in {0, 1}, pageSize \in {2, 100} :
          /\ Begin("List", <<pageNumber, pageSize>>)
          /\ LET requestPath == Sprintf(listEndpoint, <<pageNumber, pageSize>>)
                 request == do(kclient, "GET", requestPath, NoReader)
             IN  IF ~request[2].isNil
                 THEN Return(ZeroMultiPayload, Errorf("client.List", request[2]))
                         /\ krequests' = <<>>
                 ELSE /\ krequests' = <<request[1]>>
                      /\ kpc' = "do"
                      /\ kret' = [value |-> ZeroMultiPayload, err |-> nil]
    /\ UNCHANGED <<kclient, kid, vvars, cvars, svars, gvars, hvars>>

\* a variant that leaves the account ID out of the path
FetchSendNoID ==
    /\ Idle
    /\ \E accountID \in UUIDs \cup {""} :
          /\ Begin("Fetch", accountID)
          /\ LET requestPath == Sprintf(fetchEndpoint, <<"">>)
                 request == do(kclient, "GET", requestPath, NoReader)
             IN  IF ~request[2].isNil
                 THEN Return(ZeroPayload, Errorf("client.Fetch httpClient.Do", request[2]))
                         /\ krequests' = <<>>
                 ELSE /\ krequests' = <<request[1]>>
                      /\ kpc' = "do"
                      /\ kret' = [value |-> ZeroPayload, err |-> nil]
    /\ UNCHANGED <<kclient, kid, vvars, cvars, svars, gvars, hvars>>

\* Fetch, lines 114-119
FetchSend ==
    /\ Idle
    /\ \E accountID \in UUIDs \cup {""} :
          /\ Begin("Fetch", accountID)
          /\ LET requestPath == Sprintf(fetchEndpoint, <<accountID>>)
                 request == do(kclient, "GET", requestPath, NoReader)
             IN  IF ~request[2].isNil
                 THEN Return(ZeroPayload, Errorf("client.Fetch httpClient.Do", request[2]))
                         /\ krequests' = <<>>
                 ELSE /\ krequests' = <<request[1]>>
                      /\ kpc' = "do"
                      /\ kret' = [value |-> ZeroPayload, err |-> nil]
    /\ UNCHANGED <<kclient, kid, vvars, cvars, svars, gvars, hvars>>

\* a variant that asks for the deletion of the next version
DeleteSendNextVersion ==
    /\ Idle
    /\ \E accountID \in UUIDs, version \in {0, 1} :
          /\ Begin("Delete", <<accountID, version>>)
          /\ LET requestPath == Sprintf(deleteEndpoint, <<accountID, version + 1>>)
                 request == do(kclient, "DELETE", requestPath, NoReader)
             IN  IF ~request[2].isNil
                 THEN Return(NoValue, Errorf("client.Delete", request[2]))
                         /\ krequests' = <<>>
                 ELSE /\ krequests' = <<request[1]>>
                      /\ kpc' = "do"
                      /\ kret' = [value |-> NoValue, err |-> nil]
    /\ UNCHANGED <<kclient, kid, vvars, cvars, svars, gvars, hvars>>

\* Delete, lines 136-141
DeleteSend ==
    /\ Idle
    /\ \E accountID \in UUIDs, version \in {0, 1} :
          /\ Begin("Delete", <<accountID, version>>)
          /\ LET requestPath == Sprintf(deleteEndpoint, <<accountID, version>>)
                 request == do(kclient, "DELETE", requestPath, NoReader)
             IN  IF ~request[2].isNil
                 THEN Return(NoValue, Errorf("client.Delete", request[2]))
                         /\ krequests' = <<>>
                 ELSE /\ krequests' = <<request[1]>>
                      /\ kpc' = "do"
                      /\ kret' = [value |-> NoValue, err |-> nil]
    /\ UNCHANGED <<kclient, kid, vvars, cvars, svars, gvars, hvars>>

\* HttpClient.Do: the round trip fails (no connection, timeout) or brings a
\* response
HttpClientDo ==
    /\ kpc = "do"
    /\ \/ kresp' = [err |-> ErrTransport, StatusCode |-> 0, Body |-> NoReader]
       \/ \E code \in StatusCodes, body \in ResponseBodies :
             kresp' = [err |-> nil, StatusCode |-> code, Body |-> body]
    /\ kpc' = "return"
    /\ UNCHANGED <<kclient, kop, karg, kid, krequests, kdecoded, kret, vvars, cvars, svars, gvars, hvars>>

\* a variant that takes every status below 300 for success
CreateReturnAny2xx ==
    /\ kpc = "return"
    /\ kop = "Create"
    /\ IF ~doError(kresp).isNil
       THEN Return(ZeroPayload, Errorf("client.Create", doError(kresp)))
               /\ UNCHANGED kdecoded
       ELSE IF kresp.StatusCode >= 300
       THEN Return(ZeroPayload,
                   StatusErrorf("client.Create response unexpected response code",
                                kresp.StatusCode))
               /\ UNCHANGED kdecoded
       ELSE /\ kdecoded' = TRUE
            /\ LET p == unmarshalPayload(kresp.Body)
               IN  IF ~p[2].isNil
                   THEN Return(ZeroPayload, Errorf("client.Create", p[2]))
                   ELSE Return(p[1], nil)
    /\ UNCHANGED <<kclient, kop, karg, kid, krequests, kresp, vvars, cvars, svars, gvars, hvars>>

\* Create, lines 73-87
CreateReturn ==
    /\ kpc = "return"
    /\ kop = "Create"
    /\ IF ~doError(kresp).isNil
       THEN Return(ZeroPayload, Errorf("client.Create", doError(kresp)))
               /\ UNCHANGED kdecoded
       ELSE IF kresp.StatusCode # StatusCreated
       THEN Return(ZeroPayload,
                   StatusErrorf("client.Create response unexpected response code",
                                kresp.StatusCode))
               /\ UNCHANGED kdecoded
       ELSE /\ kdecoded' = TRUE
            /\ LET p == unmarshalPayload(kresp.Body)
               IN  IF ~p[2].isNil
                   THEN Return(ZeroPayload, Errorf("client.Create", p[2]))
                   ELSE Return(p[1], nil)
    /\ UNCHANGED <<kclient, kop, karg, kid, krequests, kresp, vvars, cvars, svars, gvars, hvars>>

\* a variant that asks for the next page when the response names one
ListReturnNextPage ==
    /\ kpc = "return"
    /\ kop = "List"
    /\ IF ~doError(kresp).isNil
       THEN Return(ZeroMultiPayload, Errorf("client.List", doError(kresp)))
               /\ UNCHANGED <<kdecoded, krequests>>
       ELSE IF kresp.StatusCode # StatusOK
       THEN Return(ZeroMultiPayload,
                   StatusErrorf("client.List unexpected http response status",
                                kresp.StatusCode))
               /\ UNCHANGED <<kdecoded, krequests>>
       ELSE /\ kdecoded' = TRUE
            /\ LET mp == unmarshalMultiPayload(kresp.Body)
               IN  IF ~mp[2].isNil
                   THEN Return(ZeroMultiPayload, Errorf("client.List", mp[2]))
                           /\ UNCHANGED krequests
                   ELSE IF mp[1].Links.Next # "" /\ Len(krequests) < 2
                   THEN Send(krequests[1]) /\ UNCHANGED kret
                   ELSE Return(mp[1], nil) /\ UNCHANGED krequests
    /\ UNCHANGED <<kclient, kop, karg, kid, kresp, vvars, cvars, svars, gvars, hvars>>

\* List, lines 95-109
ListReturn ==
    /\ kpc = "return"
    /\ kop = "List"
    /\ IF ~doError(kresp).isNil
       THEN Return(ZeroMultiPayload, Errorf("client.List", doError(kresp)))
               /\ UNCHANGED kdecoded
       ELSE IF kresp.StatusCode # StatusOK
       THEN Return(ZeroMultiPayload,
                   StatusErrorf("client.List unexpected http response status",
                                kresp.StatusCode))
               /\ UNCHANGED kdecoded
       ELSE /\ kdecoded' = TRUE
            /\ LET mp == unmarshalMultiPayload(kresp.Body)
               IN  IF ~mp[2].isNil
                   THEN Return(ZeroMultiPayload, Errorf("client.List", mp[2]))
                   ELSE Return(mp[1], nil)
    /\ UNCHANGED <<kclient, kop, karg, kid, krequests, kresp, vvars, cvars, svars, gvars, hvars>>

\* a variant that hands back what was decoded together with the error
FetchReturnDecoded ==
    /\ kpc = "return"
    /\ kop = "Fetch"
    /\ IF ~doError(kresp).isNil
       THEN Return(ZeroPayload, Errorf("client.Fetch httpClient.Do", doError(kresp)))
               /\ UNCHANGED kdecoded
       ELSE IF kresp.StatusCode # StatusOK
       THEN Return(ZeroPayload,
                   StatusErrorf("client.Fetch unexpected response code", kresp.StatusCode))
               /\ UNCHANGED kdecoded
       ELSE /\ kdecoded' = TRUE
            /\ LET p == unmarshalPayload(kresp.Body)
               IN  IF ~p[2].isNil
                   THEN Return(decodePayload(kresp.Body)[1], Errorf("client.Fetch", p[2]))
                   ELSE Return(p[1], nil)
    /\ UNCHANGED <<kclient, kop, karg, kid, krequests, kresp, vvars, cvars, svars, gvars, hvars>>

\* Fetch, lines 116-130
FetchReturn ==
    /\ kpc = "return"
    /\ kop = "Fetch"
    /\ IF ~doError(kresp).isNil
       THEN Return(ZeroPayload, Errorf("client.Fetch httpClient.Do", doError(kresp)))
               /\ UNCHANGED kdecoded
       ELSE IF kresp.StatusCode # StatusOK
       THEN Return(ZeroPayload,
                   StatusErrorf("client.Fetch unexpected response code", kresp.StatusCode))
               /\ UNCHANGED kdecoded
       ELSE /\ kdecoded' = TRUE
            /\ LET p == unmarshalPayload(kresp.Body)
               IN  IF ~p[2].isNil
                   THEN Return(ZeroPayload, Errorf("client.Fetch", p[2]))
                   ELSE Return(p[1], nil)
    /\ UNCHANGED <<kclient, kop, karg, kid, krequests, kresp, vvars, cvars, svars, gvars, hvars>>

\* Delete, lines 138-147
DeleteReturn ==
    /\ kpc = "return"
    /\ kop = "Delete"
    /\ IF ~doError(kresp).isNil
       THEN Return(NoValue, Errorf("client.Delete", doError(kresp)))
       ELSE IF kresp.StatusCode # StatusNoContent
       THEN Return(NoValue,
                   StatusErrorf("client.Delete unexpected response code", kresp.StatusCode))
       ELSE Return(NoValue, nil)
    /\ UNCHANGED <<kclient, kop, karg, kid, krequests, kresp, kdecoded, vvars, cvars, svars, gvars, hvars>>

Next ==
    \/ NewClient
    \/ CreateValidate
    \/ CreateSend
    \/ ListSend
    \/ FetchSend
    \/ DeleteSend
    \/ HttpClientDo
    \/ CreateReturn
    \/ ListReturn
    \/ FetchReturn
    \/ DeleteReturn

Spec == Init /\ [][Next]_vars

-----------------------------------------------------------------------------
(* The integration test: the client against a service that stores what it  *)
(* is sent.  The service keeps the data object of every create request     *)
(* under its ID, hands it back as it came, lists what it holds page by      *)
(* page, and deletes a resource when the version matches.  The test calls  *)
(* the four operations in any order, and notes after every call what       *)
(* payloadsHelper holds.                                                    *)

\* the value under key k of the data object d, a string or a number
Member(d, k) == ValueOf(Get(ValueOf(d), k))

\* where the store holds the resource of the given ID
Holds(store, id) == {i \in DOMAIN store : Member(store[i], "id") = id}

\* the link of a resource to itself, which its ID stands for
SelfLink(id) == JObject([self |-> JString(id)])

ResourceBody(d) == JObject([data |-> d, links |-> SelfLink(Member(d, "id"))])

ErrorBody(message) == JObject([error_message |-> JString(message)])

Answer(store, code, body) == [store |-> store, code |-> code, body |-> body]

Min(a, b) == IF a < b THEN a ELSE b

\* the store without its i-th element
Without(store, i) == SubSeq(store, 1, i - 1) \o SubSeq(store, i + 1, Len(store))

\* what the service does with request req, and answers
ServiceAnswer(store, req) ==
    IF req.method = "POST" THEN
        LET d == dataOf(req.body)
        IN  IF Holds(store, Member(d, "id")) # {}
            THEN Answer(store, 409, ErrorBody("Account cannot be created as it violates a duplicate constraint"))
            ELSE Answer(Append(store, d), StatusCreated, ResourceBody(d))
    ELSE IF req.method = "DELETE" THEN
        LET id == req.url.args[2].args[1]
            version == req.url.args[2].args[2]
            at == Holds(store, id)
        IN  IF at = {} THEN Answer(store, 404, ErrorBody("record does not exist"))
            ELSE IF \A i \in at : Member(store[i], "version") # version
            THEN Answer(store, 409, ErrorBody("invalid version"))
            ELSE Answer(Without(store, CHOOSE i \in at : TRUE), StatusNoContent, NoReader)
    ELSE IF req.url.args[2].format = fetchEndpoint THEN
        LET at == Holds(store, req.url.args[2].args[1])
        IN  IF at = {} THEN Answer(store, 404, ErrorBody("record does not exist"))
            ELSE Answer(store, StatusOK, ResourceBody(store[CHOOSE i \in at : TRUE]))
    ELSE
        LET number == req.url.args[2].args[1]
            size == req.url.args[2].args[2]
        IN  Answer(store, StatusOK,
                   JObject([data |-> JArray(SubSeq(store, number * size + 1,
                                                   Min((number + 1) * size, Len(store)))),
                            links |-> SelfLink("accounts")]))

\* the service answers the request the call has sent
ServiceDo ==
    /\ kpc = "do"
    /\ LET a == ServiceAnswer(sstore, krequests[Len(krequests)])
       IN  /\ sstore' = a.store
           /\ kresp' = [err |-> nil, StatusCode |-> a.code, Body |-> a.body]
    /\ kpc' = "return"
    /\ UNCHANGED <<kclient, kop, karg, kid, krequests, kdecoded, kret, tpayloads, tdeleted,
                   vvars, cvars, gvars, hvars>>

\* the payload among ps of the resource of the given ID
PayloadOf(ps, id) == CHOOSE p \in ps : p.Data.ID = id

IDsOf(ps) == {p.Data.ID : p \in ps}

\* the test's calls: one at a time, each after the last was noted
TestCreate == kpc = "idle" /\ CreateValidate

TestFetch == kpc = "idle" /\ FetchSend

TestList == kpc = "idle" /\ ListSend

TestDelete == kpc = "idle" /\ DeleteSend

\* the test notes the call that has returned: a payload that Create
\* returned without an error goes into payloadsHelper, and a resource for
\* which Delete was called with the version Create returned goes out of it
TestNote ==
    /\ kpc = "done"
    /\ kpc' = "idle"
    /\ IF kop = "Create" /\ kret.err.isNil
       THEN /\ tpayloads' = {p \in tpayloads : p.Data.ID # kret.value.Data.ID}
                                \cup {kret.value}
            /\ tdeleted' = tdeleted \ {kret.value.Data.ID}
       ELSE IF /\ kop = "Delete"
               /\ karg[1] \in IDsOf(tpayloads)
               /\ karg[2] = PayloadOf(tpayloads, karg[1]).Data.Version
       THEN /\ tpayloads' = {p \in tpayloads : p.Data.ID # karg[1]}
            /\ tdeleted' = tdeleted \cup {karg[1]}
       ELSE UNCHANGED <<tpayloads, tdeleted>>
    /\ UNCHANGED <<kclient, kop, karg, kid, krequests, kresp, kdecoded, kret, sstore,
                   vvars, cvars, gvars, hvars>>

SNext ==
    \/ NewClient
    \/ TestCreate
    \/ CreateSend
    \/ TestFetch
    \/ TestList
    \/ TestDelete
    \/ ServiceDo
    \/ CreateReturn
    \/ ListReturn
    \/ FetchReturn
    \/ DeleteReturn
    \/ TestNote

SpecService == Init /\ [][SNext]_vars

-----------------------------------------------------------------------------
(* Concurrent calls.  Each goroutine calls ValidateResource (the chained   *)
(* version), marshalPayload, unmarshalPayload or unmarshalMultiPayload and  *)
(* runs it statement by statement, interleaved with the others.  What a    *)
(* call writes is its own: the Resource and the error that the helper      *)
(* checks hand on, the bytes.Buffer of marshalPayload, the p and mp that    *)
(* Decode fills.  The package's regular expressions are read only.         *)

Check(helper, pattern, code) == [helper |-> helper, pattern |-> pattern, code |-> code]

\* the helper checks that the rule set of a country chains, in the order it
\* calls them
Chain(country) ==
    CASE country = "GB" ->
            <<Check("bicRequired", reSixDigits, ""),
              Check("bankIDRequiredMust", reSixDigits, ""),
              Check("bankIDCodeMust", reSixDigits, GBBankID),
              Check("accountNumberOptionalMust", reEightDigits, "")>>
      [] country = "AU" ->
            <<Check("bicRequired", reSixDigits, ""),
              Check("ibanNotSupported", reSixDigits, ""),
              Check("bankIDOptionalMust", reSixDigits, ""),
              Check("bankIDCodeMust", reSixDigits, AUBankID),
              Check("accountNumberOptionalMust", reAUAccountNumber, "")>>
      [] OTHER -> <<>>

\* the countries whose rule set the goroutines run
ChainedCountries == {"GB", "AU"}

\* the call of one helper check
CallCheck(check, r, e) ==
    CASE check.helper = "bicRequired" -> bicRequired(r, e)
      [] check.helper = "ibanNotSupported" -> ibanNotSupported(r, e)
      [] check.helper = "bankIDRequiredMust" -> bankIDRequiredMust(r, e, check.pattern)
      [] check.helper = "bankIDOptionalMust" -> bankIDOptionalMust(r, e, check.pattern)
      [] check.helper = "bankIDCodeMust" -> bankIDCodeMust(r, e, check.code)
      [] check.helper = "accountNumberOptionalMust" ->
            accountNumberOptionalMust(r, e, check.pattern)

\* the locals of a call: the value it works on and the error so far
Locals(value, err) == [value |-> value, err |-> err]

\* one statement of a call: the locals after it, and what the call returns
\* when the statement is a return (ret is <<>> while the call goes on)
Statement(locals, ret) == [locals |-> locals, ret |-> ret]

\* statement n of ValidateResource(account) with the given locals
ValidateStatement(account, n, l) ==
    IF account.Country \notin ChainedCountries
    THEN Statement(l, <<errorsNew(<<MsgCountry>>)>>)
    ELSE IF n <= Len(Chain(account.Country))
    THEN LET s == CallCheck(Chain(account.Country)[n], l.value, l.err)
         IN  Statement(Locals(s[1], s[2]), <<>>)
    ELSE Statement(l, <<l.err>>)

\* statement n of marshalPayload(r): Encode into the buffer, then the
\* return of the error or of a reader of the buffer's bytes
MarshalStatement(r, n, l) ==
    IF n = 1
    THEN IF timeEncodable(r.Data.CreatedOn) /\ timeEncodable(r.Data.ModifiedOn)
         THEN Statement(Locals(encodePayload(r), nil), <<>>)
         ELSE Statement(Locals(NoReader, MarshalerError), <<>>)
    ELSE IF ~l.err.isNil
    THEN Statement(l, <<NoReader, Errorf("marshalPayload", l.err)>>)
    ELSE Statement(l, <<l.value, nil>>)

\* statement n of unmarshalPayload(r): Decode into p, then the three checks
UnmarshalStatement(r, n, l) ==
    IF n = 1 THEN Statement(Locals(decodePayload(r)[1], decodePayload(r)[2]), <<>>)
    ELSE IF n = 2
    THEN IF ~l.err.isNil
         THEN Statement(l, <<ZeroPayload, Errorf("unmarshalPayload", l.err)>>)
         ELSE Statement(l, <<>>)
    ELSE IF n = 3
    THEN IF l.value.Data = ZeroData THEN Statement(l, <<ZeroPayload, ErrDataEmpty>>)
         ELSE Statement(l, <<>>)
    ELSE IF l.value.Data.Attributes = ZeroResource
         THEN Statement(l, <<ZeroPayload, ErrAttributesEmpty>>)
         ELSE Statement(l, <<l.value, nil>>)

\* statement n of unmarshalMultiPayload(r): Decode into mp, the check of
\* the error, the check of Data, the loop over Data
UnmarshalMultiStatement(r, n, l) ==
    IF n = 1
    THEN Statement(Locals(decodeMultiPayload(r)[1], decodeMultiPayload(r)[2]), <<>>)
    ELSE IF n = 2
    THEN IF ~l.err.isNil
         THEN Statement(l, <<ZeroMultiPayload, Errorf("unmarshalMultiPayload", l.err)>>)
         ELSE Statement(l, <<>>)
    ELSE IF n = 3
    THEN IF l.value.Data.isNil THEN Statement(l, <<ZeroMultiPayload, ErrNoData>>)
         ELSE Statement(l, <<>>)
    ELSE IF \E i \in DOMAIN l.value.Data.elems :
                l.value.Data.elems[i].Attributes = ZeroResource
         THEN Statement(l, <<ZeroMultiPayload, ErrMissingFields>>)
         ELSE Statement(l, <<l.value, nil>>)

StatementOf(fn, arg, n, l) ==
    CASE fn = "ValidateResource" -> ValidateStatement(arg, n, l)
      [] fn = "marshalPayload" -> MarshalStatement(arg, n, l)
      [] fn = "unmarshalPayload" -> UnmarshalStatement(arg, n, l)
      [] fn = "unmarshalMultiPayload" -> UnmarshalMultiStatement(arg, n, l)

\* the records, payloads and bodies the goroutines call the functions with
GoAccounts ==
    {[MinimalResource EXCEPT !.BIC = ""],
     [ZeroResource EXCEPT !.Country = "AU", !.IBAN = ibanExample],
     [ZeroResource EXCEPT !.Country = "HU"]}

GoPayloads ==
    {[ZeroPayload EXCEPT !.Data.Attributes = FullResource],
     [ZeroPayload EXCEPT !.Data.CreatedOn = Time(YearTenThousand, UTC, FALSE)]}

GoBodies == {DataDoc(IDOnly), DataDoc(ServiceData("Z"))}

GoMultiBodies == {DataDoc(JNull), DataDoc(JArray(<<ServiceData("Z"), IDOnly>>))}

\* goroutine g calls fn(arg); its locals are the zero values, but that
\* ValidateResource starts from the record and a nil error
GoCall(g, fn, arg) ==
    /\ gpc[g].state \in {"idle", "done"}
    /\ gfn' = [gfn EXCEPT ![g] = fn]
    /\ garg' = [garg EXCEPT ![g] = arg]
    /\ glocal' = [glocal EXCEPT ![g] = IF fn = "ValidateResource" THEN Locals(arg, nil)
                                       ELSE Locals(<<>>, nil)]
    /\ gret' = [gret EXCEPT ![g] = <<>>]
    /\ gpc' = [gpc EXCEPT ![g] = At("running", 1, FALSE)]
    /\ UNCHANGED <<vvars, cvars, kvars, svars, hvars>>

GoValidateResource ==
    \E g \in Goroutines, account \in GoAccounts : GoCall(g, "ValidateResource", account)

GoMarshalPayload ==
    \E g \in Goroutines, r \in GoPayloads : GoCall(g, "marshalPayload", r)

GoUnmarshalPayload ==
    \E g \in Goroutines, r \in GoBodies : GoCall(g, "unmarshalPayload", r)

GoUnmarshalMultiPayload ==
    \E g \in Goroutines, r \in GoMultiBodies : GoCall(g, "unmarshalMultiPayload", r)

\* a statement of the call of g runs while another call is running
Mixed(g) == gpc[g].mixed \/ \E h \in Goroutines \ {g} : gpc[h].state = "running"

\* a variant in which the calls keep the error so far in one variable of
\* the package, which all goroutines share
GoStatementShared ==
    \E g \in Goroutines :
        /\ gpc[g].state = "running"
        /\ LET s == StatementOf(gfn[g], garg[g], gpc[g].n,
                                [glocal[g] EXCEPT !.err = glocal[1].err])
           IN  /\ glocal' = [glocal EXCEPT ![g].value = s.locals.value,
                                           ![1].err = s.locals.err]
               /\ IF s.ret = <<>>
                  THEN gpc' = [gpc EXCEPT ![g] = At("running", gpc[g].n + 1, Mixed(g))] /\ UNCHANGED gret
                  ELSE /\ gpc' = [gpc EXCEPT ![g] = At("done", gpc[g].n, Mixed(g))]
                       /\ gret' = [gret EXCEPT ![g] = s.ret]
        /\ UNCHANGED <<gfn, garg, vvars, cvars, kvars, svars, hvars>>

\* a goroutine runs the next statement of its call, on the call's own locals
GoStatement ==
    \E g \in Goroutines :
        /\ gpc[g].state = "running"
        /\ LET s == StatementOf(gfn[g], garg[g], gpc[g].n, glocal[g])
           IN  /\ glocal' = [glocal EXCEPT ![g] = s.locals]
               /\ IF s.ret = <<>>
                  THEN gpc' = [gpc EXCEPT ![g] = At("running", gpc[g].n + 1, Mixed(g))] /\ UNCHANGED gret
                  ELSE /\ gpc' = [gpc EXCEPT ![g] = At("done", gpc[g].n, Mixed(g))]
                       /\ gret' = [gret EXCEPT ![g] = s.ret]
        /\ UNCHANGED <<gfn, garg, vvars, cvars, kvars, svars, hvars>>

GNext ==
    \/ GoValidateResource
    \/ GoMarshalPayload
    \/ GoUnmarshalPayload
    \/ GoUnmarshalMultiPayload
    \/ GoStatement

SpecConcurrent == Init /\ [][GNext]_vars

-----------------------------------------------------------------------------
(* The request Client.do makes, byte by byte.  A reader is the bytes it    *)
(* holds and how many of them have been read; a request is its Header (the *)
(* values added under each name, in order), its Body, and the bytes that   *)
(* GetBody makes a fresh reader of.                                        *)

Reader(kind, bytes) == [kind |-> kind, bytes |-> bytes, off |-> 0]

\* the bytes not read yet
Unread(rd) == SubSeq(rd.bytes, rd.off + 1, Len(rd.bytes))

\* ioutil.ReadAll(rd): the bytes read, and the reader after it
ReadAll(rd) == <<Unread(rd), [rd EXCEPT !.off = Len(rd.bytes)]>>

NoBody == Reader("http.NoBody", <<>>)

HeaderNames == {"Host", "Date", "Accept", "Content-Type", "Content-Length"}

NoHeader == [name \in HeaderNames |-> <<>>]

\* Header.Add(name, value)
HeaderAdd(h, name, value) == [h EXCEPT ![name] = Append(h[name], value)]

\* Header.Get(name)
HeaderGet(h, name) == IF h[name] = <<>> THEN "" ELSE h[name][1]

\* http.NewRequestWithContext(ctx, method, url, body) for a body that is
\* nil, a *bytes.Buffer or a *strings.Reader: GetBody reads a snapshot of
\* the unread bytes, and a body with no bytes becomes http.NoBody
NewRequestWithContext(method, url, body) ==
    IF body = NoReader
    THEN [method |-> method, url |-> url, Header |-> NoHeader, Body |-> NoReader,
          GetBody |-> NoReader, ContentLength |-> 0]
    ELSE IF Len(Unread(body)) = 0
    THEN [method |-> method, url |-> url, Header |-> NoHeader, Body |-> NoBody,
          GetBody |-> NoBody, ContentLength |-> 0]
    ELSE [method |-> method, url |-> url, Header |-> NoHeader, Body |-> body,
          GetBody |-> Reader("bytes.Reader", Unread(body)),
          ContentLength |-> Len(Unread(body))]

HoursInDay == 24

gmtLoc == [name |-> "GMT", offset |-> 0]

\* time.Local of the machine, an hour east of Greenwich
localLoc == [name |-> "CET", offset |-> 1]

\* time.Now() at hour now since some midnight in Greenwich
timeNow(now) == [unix |-> now, loc |-> localLoc]

\* Time.In(loc)
In(tm, loc) == [tm EXCEPT !.loc = loc]

\* Time.Format(time.RFC1123): the day and the hour on the clock of the
\* time's location, and the abbreviation of the zone
FormatRFC1123(tm) ==
    [day |-> (tm.unix + tm.loc.offset) \div HoursInDay,
     hour |-> (tm.unix + tm.loc.offset) % HoursInDay,
     zone |-> tm.loc.name]

\* a variant that formats time.Now() as it is, in the machine's location
currentHTTPDateLocal(c, now) == FormatRFC1123(timeNow(now))

\* currentHTTPDate
currentHTTPDate(c, now) == FormatRFC1123(In(timeNow(now), c.DateLocation))

\* strconv.Itoa
Itoa(n) == ToString(n)

\* the three headers every request gets
CommonHeaders(c, now, h) ==
    HeaderAdd(HeaderAdd(HeaderAdd(h, "Host", c.BaseURL),
                        "Date", currentHTTPDate(c, now)),
              "Accept", acceptHeaderValue)

\* Content-Type and Content-Length for a body of at least one byte
BodyHeaders(h, body) ==
    IF Len(body) > 0
    THEN HeaderAdd(HeaderAdd(h, "Content-Type", acceptHeaderValue),
                   "Content-Length", Itoa(Len(body)))
    ELSE h

\* the addHeaders of the first version of the client, which reads r.Body
\* itself
addHeadersReadBody(c, now, r) ==
    IF r.Body = NoReader
    THEN [r EXCEPT !.Header = CommonHeaders(c, now, r.Header)]
    ELSE [r EXCEPT !.Header = BodyHeaders(CommonHeaders(c, now, r.Header),
                                          ReadAll(r.Body)[1]),
                   !.Body = ReadAll(r.Body)[2]]

\* addHeaders with the values of the headers: it reads the reader that
\* r.GetBody() returns, and leaves r.Body alone
addHeadersGetBody(c, now, r) ==
    IF r.Body = NoReader
    THEN [r EXCEPT !.Header = CommonHeaders(c, now, r.Header)]
    ELSE [r EXCEPT !.Header = BodyHeaders(CommonHeaders(c, now, r.Header),
                                          ReadAll(r.GetBody)[1])]

testURL == "https://atesturl"

\* the Client of TestClient_addHeaders
HeaderClient == [BaseURL |-> testURL, DateLocation |-> gmtLoc]

\* most bytes of a request body
MaxBodyLen == 3

BodyBytes == {"{", "}"}

ByteStrings == UNION {[1 .. n -> BodyBytes] : n \in 0 .. MaxBodyLen}

\* the payloads of Client.do and of TestClient_addHeaders: nil, the
\* *bytes.Buffer of marshalPayload, a *strings.Reader
HeaderPayloads ==
    {NoReader} \cup {Reader(kind, bytes) : kind \in {"bytes.Buffer", "strings.Reader"},
                                           bytes \in ByteStrings}

\* the hours at which the request is made: the last of a day in Greenwich
\* is the first of the next an hour east
Nows == {0, 12, 23}

\* Client.do makes the request
HeaderNewRequest ==
    /\ hpc = "new"
    /\ \E payload \in HeaderPayloads, now \in Nows :
            /\ hpayload' = payload
            /\ hnow' = now
            /\ hreq' = NewRequestWithContext("POST", testURL, payload)
    /\ hpc' = "made"
    /\ UNCHANGED <<hsent, vvars, cvars, kvars, svars, gvars>>

\* req = c.addHeaders(req)
HeaderAddHeaders ==
    /\ hpc = "made"
    /\ hreq' = addHeadersGetBody(HeaderClient, hnow, hreq)
    /\ hpc' = "decorated"
    /\ UNCHANGED <<hnow, hpayload, hsent, vvars, cvars, kvars, svars, gvars>>

\* c.HttpClient.Do(req): the HTTP client reads the body of the request to
\* its end and sends the bytes
HeaderSend ==
    /\ hpc = "decorated"
    /\ IF hreq.Body = NoReader
       THEN hsent' = <<>> /\ UNCHANGED hreq
       ELSE /\ hsent' = ReadAll(hreq.Body)[1]
            /\ hreq' = [hreq EXCEPT !.Body = ReadAll(hreq.Body)[2]]
    /\ hpc' = "sent"
    /\ UNCHANGED <<hnow, hpayload, vvars, cvars, kvars, svars, gvars>>

HNext ==
    \/ HeaderNewRequest
    \/ HeaderAddHeaders
    \/ HeaderSend

SpecHeaders == Init /\ [][HNext]_vars


-----------------------------------------------------------------------------
(* The documented rule sets, as the README's Validation section and the    *)
(* names and expectations of TestValidateResource state them: per country,  *)
(* how the bank ID, the bank ID code, the BIC, the account number and the  *)
(* IBAN are constrained.  They are what the claims below compare the two   *)
(* versions of ValidateResource against.                                   *)

Rule(bankIDKind, bankIDRe, codeKind, code, bicRequiredHere, accountRe, ibanForbidden) ==
    [bankIDKind |-> bankIDKind, bankIDRe |-> bankIDRe, codeKind |-> codeKind,
     code |-> code, bic |-> bicRequiredHere, accountRe |-> accountRe,
     iban |-> ibanForbidden]

\* the rule set of supported country c for record r (Italy's bank ID rule
\* depends on whether r has an account number)
RuleSet(c, r) ==
    CASE c = "GB" -> Rule("required", Re(<<>>, 6, 6), "must", "GBDSC", TRUE, Re(<<>>, 8, 8), FALSE)
      [] c = "AU" -> Rule("optional", Re(<<>>, 6, 6), "must", "AUBSB", TRUE,
                          Re(<<NonZeroDigit>>, 5, 9), TRUE)
      [] c = "BE" -> Rule("required", Re(<<>>, 3, 3), "must", "BE", FALSE, Re(<<>>, 7, 7), FALSE)
      [] c = "CA" -> Rule("optional", Re(<<{"0"}>>, 8, 8), "optional", "CACPA", TRUE,
                          Re(<<>>, 7, 12), TRUE)
      [] c = "FR" -> Rule("required", Re(<<>>, 10, 10), "must", "FR", FALSE, Re(<<>>, 10, 10), FALSE)
      [] c = "DE" -> Rule("required", Re(<<>>, 8, 8), "must", "DEBLZ", FALSE, Re(<<>>, 7, 7), FALSE)
      [] c = "GR" -> Rule("required", Re(<<>>, 7, 7), "must", "GRBIC", FALSE, Re(<<>>, 16, 16), FALSE)
      [] c = "HK" -> Rule("optional", Re(<<>>, 3, 3), "optional", "HKNCC", TRUE,
                          Re(<<>>, 9, 12), TRUE)
      [] c = "IT" -> Rule("required",
                          IF r.AccountNumber = <<>> THEN Re(<<>>, 10, 10) ELSE Re(<<>>, 11, 11),
                          "must", "ITNCC", FALSE, Re(<<>>, 12, 12), FALSE)
      [] c = "LU" -> Rule("required", Re(<<>>, 3, 3), "must", "LULUX", FALSE, Re(<<>>, 13, 13), FALSE)
      [] c = "NL" -> Rule("empty", Re(<<>>, 0, 0), "must", "", TRUE, Re(<<>>, 10, 10), FALSE)
      [] c = "PL" -> Rule("required", Re(<<>>, 8, 8), "must", "PLKNR", FALSE, Re(<<>>, 16, 16), FALSE)
      [] c = "PT" -> Rule("required", Re(<<>>, 8, 8), "must", "PTNCC", FALSE, Re(<<>>, 11, 11), FALSE)
      [] c = "ES" -> Rule("required", Re(<<>>, 8, 8), "must", "ESNCC", FALSE, Re(<<>>, 10, 10), FALSE)
      [] c = "CH" -> Rule("required", Re(<<>>, 5, 5), "must", "CHBCC", FALSE, Re(<<>>, 12, 12), FALSE)
      [] c = "US" -> Rule("required", Re(<<>>, 9, 9), "must", "USABA", TRUE, Re(<<>>, 6, 17), TRUE)

\* the checks the list-and-join version applies: the documented ones, but
\* that its Hong Kong rule set requires the bank ID and the bank ID code,
\* and that its Italian one asks for an 11-digit bank ID only together with
\* a malformed account number
RuleSetListJoin(c, r) ==
    CASE c = "HK" -> Rule("required", Re(<<>>, 3, 3), "must", "HKNCC", TRUE, Re(<<>>, 9, 12), TRUE)
      [] c = "IT" -> Rule("required",
                          IF r.AccountNumber # <<>> /\ ~MatchString(Re(<<>>, 12, 12), r.AccountNumber)
                          THEN Re(<<>>, 11, 11) ELSE Re(<<>>, 10, 10),
                          "must", "ITNCC", FALSE, Re(<<>>, 12, 12), FALSE)
      [] OTHER -> RuleSet(c, r)

\* whether record r fails the check of rule set rule that message msg names
Fails(msg, rule, r) ==
    IF msg = MsgBankID THEN
        IF rule.bankIDKind = "required" THEN ~MatchString(rule.bankIDRe, r.BankID)
        ELSE IF rule.bankIDKind = "optional"
             THEN r.BankID # <<>> /\ ~MatchString(rule.bankIDRe, r.BankID)
             ELSE r.BankID # <<>>
    ELSE IF msg = MsgBankIDCode THEN
        IF rule.codeKind = "must" THEN r.BankIDCode # rule.code
        ELSE r.BankIDCode \notin {"", rule.code}
    ELSE IF msg = MsgBIC THEN rule.bic /\ r.BIC = ""
    ELSE IF msg = MsgAccountNumber
         THEN r.AccountNumber # <<>> /\ ~MatchString(rule.accountRe, r.AccountNumber)
         ELSE rule.iban /\ r.IBAN # ""

FieldMsgs == {MsgBankID, MsgBankIDCode, MsgBIC, MsgAccountNumber, MsgIBAN}

\* the checks of the rule set that r fails, by the message that names each
Failing(rule, r) == {msg \in FieldMsgs : Fails(msg, rule, r)}

\* the violation messages an error's text holds, in order, and as a set
Reported(err) == SelectSeq(err.parts, LAMBDA x : x # NilVerb)

Violations(err) == {Reported(err)[i] : i \in 1 .. Len(Reported(err))}

\* err reports exactly the checks in failing, each once, and is nil exactly
\* when there is none
ReportsExactly(err, failing) ==
    /\ Violations(err) = failing
    /\ Len(Reported(err)) = Cardinality(failing)
    /\ err.isNil <=> failing = {}

Validated(c) == vdone /\ vaccount.Country = c

-----------------------------------------------------------------------------
C2_UnsupportedCountryRejected ==
    (vdone /\ vaccount.Country \notin SupportedCountries) =>
        /\ ~verr.isNil
        /\ ~verrR.isNil

(* C3: Create sends the create request only after a successful validation *)
(* of the record it was called with: every request the call has handed to  *)
(* the HTTP client carries the encoding of that record, which              *)
(* ValidateResource accepts; and when ValidateResource rejects the record  *)
(* Create returns an error and has sent no request.                        *)
C3_NoRequestWithoutValidation ==
    kop = "Create" =>
        /\ \A i \in DOMAIN krequests :
              /\ ValidateResource(karg).isNil
              /\ krequests[i].method = "POST"
              /\ krequests[i].body = encodePayload(requestPayload(kclient, kid, karg))
        /\ (kpc = "done" /\ ~ValidateResource(karg).isNil) =>
              /\ ~kret.err.isNil
              /\ kret.value = ZeroPayload
              /\ krequests = <<>>
              /\ kresp = NoResponse

\* Create has returned the validation error of a record without a BIC, and
\* nothing was sent
C3_Witness ==
    /\ kop = "Create"
    /\ kpc = "done"
    /\ karg = [MinimalResource EXCEPT !.BIC = ""]
    /\ kret.err = Errorf("client.Create", ValidateResource(karg))
    /\ krequests = <<>>

(* C4: for every supported country, a record that satisfies every          *)
(* documented rule of the country's rule set validates: ValidateResource   *)
(* returns nil.                                                            *)
C4_NoFalsePositives ==
    (/\ vdone
     /\ vaccount.Country \in SupportedCountries
     /\ Failing(RuleSet(vaccount.Country, vaccount), vaccount) = {}) =>
        /\ verr.isNil
        /\ verrR.isNil

(* C5: for Italy the bank ID is accepted exactly when it has 10 digits and *)
(* the account number is empty, or 11 digits and the account number is     *)
(* not; a non-empty account number is accepted exactly when it has 12      *)
(* digits.                                                                 *)
C5_ItalyBankIDFollowsAccountNumber ==
    Validated("IT") =>
        LET bankIDok == MatchString(IF vaccount.AccountNumber = <<>>
                                    THEN reTenDigits ELSE reElevenDigits,
                                    vaccount.BankID)
            accountOk == vaccount.AccountNumber = <<>>
                         \/ MatchString(reTwelveDigits, vaccount.AccountNumber)
        IN  /\ MsgBankID \notin Violations(verr) <=> bankIDok
            /\ MsgBankID \notin Violations(verrR) <=> bankIDok
            /\ MsgAccountNumber \notin Violations(verr) <=> accountOk
            /\ MsgAccountNumber \notin Violations(verrR) <=> accountOk

-----------------------------------------------------------------------------
(* What a body holds, read off the JSON itself: whether a value leaves a   *)
(* field of a kind at its zero value, and whether an object leaves every   *)
(* field of a struct at its zero value.                                    *)

LeavesZero(kind, j) ==
    CASE TypeOf(j) = "string" /\ kind = "string" -> ValueOf(j) = ""
      [] TypeOf(j) = "string" /\ kind = "digits" -> ValueOf(j) = <<>>
      [] TypeOf(j) = "string" /\ kind = "time" ->
            IsRFC3339(ValueOf(j)) => ValueOf(j) = [instant |-> ZeroInstant, zone |-> "Z"]
      [] TypeOf(j) = "bool" /\ kind = "bool" -> ValueOf(j) = FALSE
      [] TypeOf(j) = "number" /\ kind = "int" -> ValueOf(j) = 0
      [] TypeOf(j) = "array" /\ kind = "names" ->
            \A i \in 1 .. Len(ValueOf(j)) :
               (i <= 4 /\ TypeOf(ValueOf(j)[i]) = "string") => ValueOf(ValueOf(j)[i]) = ""
      [] OTHER -> TRUE

AllZeroOnWire(fields, j) ==
    TypeOf(j) = "object" => \A f \in fields : LeavesZero(f.kind, Get(ValueOf(j), f.key))

\* the data object d holds nothing that sets a field of Attributes
AttributesZeroOnWire(d) == AllZeroOnWire(ResourceFields, attributesOf(d))

\* the data object d holds nothing that sets a field of Data
DataZeroOnWire(d) == AllZeroOnWire(DataFields, d) /\ AttributesZeroOnWire(d)

WellFormed(body) == TypeOf(body) \notin {"invalid", "trailing"}

\* what unmarshalPayload returns for a body that is not JSON
MalformedJSONError == Errorf("unmarshalPayload", SyntaxError)

(* C6: for every well-formed body whose data sets no field of Data, or no  *)
(* field of Data.Attributes (the attributes key absent, null, or present   *)
(* with zero values only), unmarshalPayload returns an error that is not   *)
(* the error of a malformed body, together with the zero Payload.          *)
C6_ZeroDataRejected ==
    (/\ cstep = "payload"
     /\ WellFormed(creader)
     /\ DataZeroOnWire(dataOf(creader)) \/ AttributesZeroOnWire(dataOf(creader))) =>
        /\ ~cgot[2].isNil
        /\ cgot[2] # MalformedJSONError
        /\ cgot[1] = ZeroPayload

\* a body with an ID and an attributes object of zero values was rejected
\* for its empty attributes
C6_Witness ==
    /\ cstep = "payload"
    /\ creader = DataDoc(WithAttributes(ZeroValuedAttributes))
    /\ cgot = <<ZeroPayload, ErrAttributesEmpty>>

\* the body is an envelope: an object whose links, when present, are an
\* object of strings
Envelope(body) ==
    /\ TypeOf(body) = "object"
    /\ structOK(LinksFields, ZeroLinks, linksOf(body))

(* C7: unmarshalMultiPayload of an envelope whose data is the empty array  *)
(* returns no error and a MultiPayload with a non-nil Data of zero         *)
(* elements; of an envelope whose data key is missing or null it returns   *)
(* an error.                                                               *)
C7_EmptyArrayIsNotMissing ==
    (cstep = "multipayload" /\ Envelope(creader)) =>
        /\ dataOf(creader) = JArray(<<>>) =>
              /\ cgotMulti[2].isNil
              /\ ~cgotMulti[1].Data.isNil
              /\ Len(cgotMulti[1].Data.elems) = 0
        /\ dataOf(creader) = JNull => ~cgotMulti[2].isNil

\* {"data":[]} was decoded without an error
C7_Witness ==
    /\ cstep = "multipayload"
    /\ creader = DataDoc(JArray(<<>>))
    /\ cgotMulti = <<[Data |-> Slice(<<>>), Links |-> ZeroLinks], nil>>

(* C8: when any element of the data array, at any position, sets no field  *)
(* of its attributes, unmarshalMultiPayload returns an error and the zero  *)
(* MultiPayload, whatever the other elements are.                          *)
C8_OneEmptyElementFailsAll ==
    (/\ cstep = "multipayload"
     /\ TypeOf(creader) = "object"
     /\ TypeOf(dataOf(creader)) = "array"
     /\ \E i \in DOMAIN ValueOf(dataOf(creader)) :
           AttributesZeroOnWire(ValueOf(dataOf(creader))[i])) =>
        /\ ~cgotMulti[2].isNil
        /\ cgotMulti[1] = ZeroMultiPayload

\* two complete elements followed by one without attributes: rejected
C8_Witness ==
    /\ cstep = "multipayload"
    /\ creader = DataDoc(JArray(<<ServiceData("Z"),
                                   WithAttributes(encodeResource(MinimalResource)),
                                   IDOnly>>))
    /\ cgotMulti = <<ZeroMultiPayload, ErrMissingFields>>

\* every string and every name of the record is set
FullyPopulated(r) ==
    /\ \A f \in ResourceFields :
          /\ f.kind = "string" => r[f.go] # ""
          /\ f.kind = "digits" => r[f.go] # <<>>
          /\ f.kind = "names" => \A i \in DOMAIN r[f.go] : r[f.go][i] # ""

\* every string of the payload is valid UTF-8
ValidUTF8(p) ==
    /\ \A f \in ResourceFields :
          /\ f.kind = "string" => p.Data.Attributes[f.go] # BadUTF8
          /\ f.kind \in {"digits", "names"} =>
                \A i \in DOMAIN p.Data.Attributes[f.go] : p.Data.Attributes[f.go][i] # BadUTF8
    /\ \A f \in DataFields : f.kind = "string" => p.Data[f.go] # BadUTF8
    /\ \A f \in LinksFields : p.Links[f.go] # BadUTF8

\* a time as the decoder yields it for a text in UTC: in UTC, without a
\* monotonic reading, of a year json renders
PlainUTC(t) == t.loc = UTC /\ ~t.mono /\ timeEncodable(t)

(* C9, as stated: for every Payload p whose Attributes are fully           *)
(* populated, marshalPayload(p) succeeds and unmarshalPayload of its       *)
(* result succeeds and returns p, field for field.                         *)
C9_RoundTrip ==
    FullyPopulated(cp.Data.Attributes) =>
        /\ cstep = "marshalled" => cmerr.isNil
        /\ cstep = "roundtrip" => cgot = <<cp, nil>>

(* C9, amended: for every Payload p whose Attributes are fully populated,  *)
(* whose strings are valid UTF-8 and whose CreatedOn and ModifiedOn are    *)
(* times in UTC without a monotonic clock reading, of a year in 0..9999,   *)
(* marshalPayload(p) succeeds and unmarshalPayload of its result succeeds  *)
(* and returns p, field for field.                                         *)
C9_RoundTripOfPlainPayloads ==
    (/\ FullyPopulated(cp.Data.Attributes)
     /\ ValidUTF8(cp)
     /\ PlainUTC(cp.Data.CreatedOn)
     /\ PlainUTC(cp.Data.ModifiedOn)) =>
        /\ cstep = "marshalled" => cmerr.isNil
        /\ cstep = "roundtrip" => cgot = <<cp, nil>>

\* a payload with every field set, links included, came back as it was
C9_Witness ==
    /\ cstep = "roundtrip"
    /\ cp.Data.Attributes = FullResource
    /\ cp.Data.ID = testID
    /\ cp.Data.Version = 1
    /\ cp.Data.CreatedOn = Time(testTime, UTC, FALSE)
    /\ cp.Data.ModifiedOn = Time(testTime, UTC, FALSE)
    /\ cp.Links = FullLinks
    /\ cgot = <<cp, nil>>

\* the one status each operation takes for success
ExpectedStatus(o) ==
    CASE o = "Create" -> 201
      [] o = "List"   -> 200
      [] o = "Fetch"  -> 200
      [] o = "Delete" -> 204

(* C10: a call that has returned without an error got a response with the *)
(* status 201 (Create), 200 (Fetch, List) or 204 (Delete); a call that got *)
(* any other status, or no response, has returned an error and has not     *)
(* decoded the body.                                                       *)
C10_OnlyExpectedStatusSucceeds ==
    kpc = "done" =>
        /\ kret.err.isNil =>
              /\ kresp.err.isNil
              /\ kresp.StatusCode = ExpectedStatus(kop)
        /\ kresp.StatusCode # ExpectedStatus(kop) =>
              /\ ~kret.err.isNil
              /\ ~kdecoded

\* Create got 200 with the body of a complete resource: an error, and the
\* body was not decoded
C10_Witness ==
    /\ kpc = "done"
    /\ kop = "Create"
    /\ kresp.err.isNil
    /\ kresp.StatusCode = StatusOK
    /\ kresp.Body = DataDoc(ServiceData("Z"))
    /\ ~kret.err.isNil
    /\ kret.value = ZeroPayload
    /\ ~kdecoded

\* the zero value of the type the operation returns
ZeroValueOf(o) == IF o = "List" THEN ZeroMultiPayload ELSE ZeroPayload

(* C11: whenever Create, Fetch or List has returned a non-nil error, the   *)
(* value returned with it is the zero Payload (Create, Fetch) or the zero  *)
(* MultiPayload (List): nothing that was decoded comes with an error.      *)
C11_ZeroValueWithError ==
    (kpc = "done" /\ kop \in {"Create", "Fetch", "List"} /\ ~kret.err.isNil) =>
        kret.value = ZeroValueOf(kop)

\* Fetch got 200 with a body that holds an ID and no attributes: the ID was
\* decoded, and the call returned an error with the zero Payload
C11_Witness ==
    /\ kpc = "done"
    /\ kop = "Fetch"
    /\ kresp.err.isNil
    /\ kresp.StatusCode = StatusOK
    /\ kresp.Body = DataDoc(IDOnly)
    /\ decodePayload(kresp.Body)[1] # ZeroPayload
    /\ kdecoded
    /\ ~kret.err.isNil
    /\ kret.value = ZeroPayload

\* the countries whose bank ID, and whose bank ID code, is optional
OptionalBankID == {"AU", "CA", "HK"}

OptionalBankIDCode == {"CA", "HK"}

\* the optional fields of the rule set of country c, by the message that
\* names each
OptionalMsgs(c) ==
    {MsgAccountNumber}
        \cup (IF c \in OptionalBankID THEN {MsgBankID} ELSE {})
        \cup (IF c \in OptionalBankIDCode THEN {MsgBankIDCode} ELSE {})

\* the value record r holds in the field that msg names is empty
EmptyField(msg, r) ==
    IF msg = MsgAccountNumber THEN r.AccountNumber = <<>>
    ELSE IF msg = MsgBankID THEN r.BankID = <<>>
    ELSE r.BankIDCode = ""

\* the value record r holds in the field that msg names matches the pattern,
\* or equals the constant, of rule set rule
MatchesField(msg, rule, r) ==
    IF msg = MsgAccountNumber THEN MatchString(rule.accountRe, r.AccountNumber)
    ELSE IF msg = MsgBankID THEN MatchString(rule.bankIDRe, r.BankID)
    ELSE r.BankIDCode = rule.code

\* err treats every optional field of r's country as optional
OptionalFieldsOptional(err, r) ==
    \A msg \in OptionalMsgs(r.Country) :
        msg \in Violations(err) <=>
            (~EmptyField(msg, r) /\ ~MatchesField(msg, RuleSet(r.Country, r), r))

(* C12: for every supported country and every optional field of its rule  *)
(* set (the account number; the bank ID for AU, CA and HK; the bank ID     *)
(* code for CA and HK), an empty value is never reported, and a non-empty  *)
(* value is reported exactly when it does not match the field's pattern or *)
(* constant; this holds of both versions of ValidateResource.              *)
C12_OptionalFields ==
    (vdone /\ vaccount.Country \in SupportedCountries) =>
        /\ OptionalFieldsOptional(verr, vaccount)
        /\ OptionalFieldsOptional(verrR, vaccount)

\* the same of the chained version alone
C12_OptionalFieldsChained ==
    (vdone /\ vaccount.Country \in SupportedCountries) =>
        OptionalFieldsOptional(verrR, vaccount)

\* the values of BIC tried
BICs == {"", bicExample}

\* both versions give record r the verdict they gave vaccount
SameVerdict(r) ==
    /\ ValidateResource(r).isNil <=> verr.isNil
    /\ ValidateResourceR(r).isNil <=> verrR.isNil

\* BIC is required in the countries of required and not looked at in the
\* other supported countries
BICRequiredIn(required) ==
    (vdone /\ vaccount.Country \in SupportedCountries) =>
        IF vaccount.Country \in required
        THEN vaccount.BIC = "" =>
                /\ MsgBIC \in Violations(verr)
                /\ MsgBIC \in Violations(verrR)
        ELSE \A b \in BICs : SameVerdict([vaccount EXCEPT !.BIC = b])

(* C13: an empty BIC is a violation for GB, AU, CA, HK and US, and for the *)
(* other eleven supported countries the value of BIC never changes the     *)
(* verdict.                                                                *)
C13_BICRequiredForFive == BICRequiredIn({"GB", "AU", "CA", "HK", "US"})

(* C13, amended: an empty BIC is a violation for GB, AU, CA, HK, NL and    *)
(* US, and for the other ten supported countries the value of BIC never    *)
(* changes the verdict.                                                    *)
C13_BICRequiredForSix == BICRequiredIn({"GB", "AU", "CA", "HK", "NL", "US"})

\* a Dutch record with nothing but the country: both versions report the
\* missing BIC and nothing else
C13_Witness ==
    /\ Validated("NL")
    /\ vaccount = [ZeroResource EXCEPT !.Country = "NL"]
    /\ Violations(verr) = {MsgBIC}
    /\ Violations(verrR) = {MsgBIC}
    /\ ValidateResource([vaccount EXCEPT !.BIC = bicExample]).isNil
    /\ ValidateResourceR([vaccount EXCEPT !.BIC = bicExample]).isNil

\* the thirteen countries whose bank ID code is required, each with the
\* value it must have
RequiredCode ==
    [GB |-> "GBDSC", AU |-> "AUBSB", BE |-> "BE", FR |-> "FR", DE |-> "DEBLZ",
     GR |-> "GRBIC", IT |-> "ITNCC", LU |-> "LULUX", PL |-> "PLKNR",
     PT |-> "PTNCC", ES |-> "ESNCC", CH |-> "CHBCC", US |-> "USABA"]

(* C14: for GB, AU, BE, FR, DE, GR, IT, LU, PL, PT, ES, CH and US both     *)
(* versions of ValidateResource report the bank ID code exactly when it   *)
(* differs from the country's constant, the empty string included.        *)
C14_BankIDCodeMustEqual ==
    (vdone /\ vaccount.Country \in DOMAIN RequiredCode) =>
        /\ MsgBankIDCode \in Violations(verr)
               <=> vaccount.BankIDCode # RequiredCode[vaccount.Country]
        /\ MsgBankIDCode \in Violations(verrR)
               <=> vaccount.BankIDCode # RequiredCode[vaccount.Country]

\* a US record whose only fault is the missing bank ID code: both versions
\* report it and nothing else
C14_Witness ==
    /\ Validated("US")
    /\ vaccount.BankIDCode = ""
    /\ vaccount.BankID = Str(9, "1", "7")
    /\ vaccount.BIC = bicExample
    /\ Violations(verr) = {MsgBankIDCode}
    /\ Violations(verrR) = {MsgBankIDCode}

\* the bank ID code, and the pattern of the bank ID, of the two countries
\* where both are optional
OptionalCode == [CA |-> "CACPA", HK |-> "HKNCC"]

OptionalBankIDRe == [CA |-> Re(<<{"0"}>>, 8, 8), HK |-> Re(<<>>, 3, 3)]

\* err treats the bank ID and the bank ID code of r, a record of CA or HK,
\* as optional
BankIDAndCodeOptional(err, r) ==
    /\ r = [ZeroResource EXCEPT !.Country = r.Country, !.BIC = r.BIC] /\ r.BIC # ""
           => err.isNil
    /\ MsgBankIDCode \in Violations(err)
           <=> r.BankIDCode \notin {"", OptionalCode[r.Country]}
    /\ MsgBankID \in Violations(err)
           <=> (r.BankID # <<>> /\ ~MatchString(OptionalBankIDRe[r.Country], r.BankID))

(* C15: for CA and HK a record with only the country and a BIC validates, *)
(* a bank ID code is reported exactly when it is neither empty nor CACPA / *)
(* HKNCC, and a bank ID exactly when it is neither empty nor 9 digits with *)
(* a leading 0 (CA) or 3 digits (HK); this holds of both versions of      *)
(* ValidateResource.                                                      *)
C15_CanadaHongKongOptional ==
    (vdone /\ vaccount.Country \in DOMAIN OptionalCode) =>
        /\ BankIDAndCodeOptional(verr, vaccount)
        /\ BankIDAndCodeOptional(verrR, vaccount)

\* the same of the chained version alone
C15_CanadaHongKongOptionalChained ==
    (vdone /\ vaccount.Country \in DOMAIN OptionalCode) =>
        BankIDAndCodeOptional(verrR, vaccount)

\* the lengths of the bank ID by country, for the countries whose bank ID is
\* a string of digits of an exact length (Italy has two, see C5; the
\* Netherlands take no bank ID, see C18)
BankIDLengths ==
    [GB |-> {6}, AU |-> {6}, BE |-> {3}, CA |-> {9}, FR |-> {10}, DE |-> {8},
     GR |-> {7}, HK |-> {3}, IT |-> {10, 11}, LU |-> {3}, PL |-> {8},
     PT |-> {8}, ES |-> {8}, CH |-> {5}, US |-> {9}]

\* bank ID b is of the form country c asks for, where au is the pattern of
\* Australia
BankIDFits(c, b, au) ==
    IF c = "AU" THEN MatchString(au, b)
    ELSE IF c = "CA" THEN MatchString(Re(<<{"0"}>>, 8, 8), b)
    ELSE \E n \in BankIDLengths[c] : MatchString(Re(<<>>, n, n), b)

\* both versions report a bank ID that is present and not of the form of
\* its country, and report none that is (for Italy, which of the two lengths
\* is right depends on the account number, and is left to C5)
BankIDFormat(au) ==
    (vdone /\ vaccount.Country \in DOMAIN BankIDLengths /\ vaccount.BankID # <<>>) =>
        IF BankIDFits(vaccount.Country, vaccount.BankID, au)
        THEN vaccount.Country # "IT" =>
                /\ MsgBankID \notin Violations(verr)
                /\ MsgBankID \notin Violations(verrR)
        ELSE /\ MsgBankID \in Violations(verr)
             /\ MsgBankID \in Violations(verrR)

(* C16: a bank ID that is present must be a string of digits of the exact *)
(* length of its country, except for CA (9 digits, the first a zero) and   *)
(* for AU (6 to 10 digits, the first not a zero).                          *)
C16_BankIDFormat == BankIDFormat(Re(<<NonZeroDigit>>, 5, 9))

(* C16, amended: a bank ID that is present must be a string of digits of  *)
(* the exact length of its country (6 digits for AU), except for CA (9     *)
(* digits, the first a zero).                                              *)
C16_BankIDFormatSixDigitsAU == BankIDFormat(Re(<<>>, 6, 6))

\* an Australian record with a bank ID of six digits, the first a zero,
\* passes both versions; one of seven digits would not
C16_Witness ==
    /\ Validated("AU")
    /\ vaccount.BankID = Str(6, "0", "7")
    /\ verr.isNil
    /\ verrR.isNil
    /\ MsgBankID \in Violations(ValidateResource([vaccount EXCEPT !.BankID = Str(7, "1", "7")]))
    /\ MsgBankID \in Violations(ValidateResourceR([vaccount EXCEPT !.BankID = Str(7, "1", "7")]))

\* the countries that take no IBAN, and the values of IBAN tried
NoIBAN == {"AU", "CA", "HK", "US"}

IBANs == {"", ibanExample}

(* C17: for AU, CA, HK and US both versions of ValidateResource reject    *)
(* every record with a non-empty IBAN; for the other twelve supported      *)
(* countries the value of IBAN never changes the verdict.                  *)
C17_IBANRejectedInFour ==
    (vdone /\ vaccount.Country \in SupportedCountries) =>
        IF vaccount.Country \in NoIBAN
        THEN vaccount.IBAN # "" => (~verr.isNil /\ ~verrR.isNil)
        ELSE \A i \in IBANs : SameVerdict([vaccount EXCEPT !.IBAN = i])

\* a US record whose only fault is its IBAN: both versions report the IBAN
\* and nothing else, and pass the record without it
C17_Witness ==
    /\ Validated("US")
    /\ vaccount.IBAN = ibanExample
    /\ Violations(verr) = {MsgIBAN}
    /\ Violations(verrR) = {MsgIBAN}
    /\ ValidateResource([vaccount EXCEPT !.IBAN = ""]).isNil
    /\ ValidateResourceR([vaccount EXCEPT !.IBAN = ""]).isNil

\* err holds record r to the Dutch rules for the bank ID, the bank ID code,
\* the IBAN and the account number
DutchRules(err, r) ==
    /\ MsgBankID \in Violations(err) <=> r.BankID # <<>>
    /\ MsgBankIDCode \in Violations(err) <=> r.BankIDCode # ""
    /\ MsgIBAN \notin Violations(err)
    /\ MsgAccountNumber \in Violations(err)
           <=> (r.AccountNumber # <<>> /\ ~MatchString(Re(<<>>, 10, 10), r.AccountNumber))

(* C18: for NL both versions of ValidateResource report every non-empty   *)
(* bank ID and every non-empty bank ID code, never report the IBAN, and    *)
(* report the account number exactly when it is non-empty and not exactly  *)
(* 10 digits.                                                              *)
C18_NetherlandsRules ==
    Validated("NL") =>
        /\ DutchRules(verr, vaccount)
        /\ DutchRules(verrR, vaccount)
        /\ \A i \in IBANs : SameVerdict([vaccount EXCEPT !.IBAN = i])

\* a Dutch record with a BIC, an IBAN and an account number of ten digits
\* passes both versions; with a bank ID it passes neither
C18_Witness ==
    /\ Validated("NL")
    /\ vaccount.BIC = bicExample
    /\ vaccount.IBAN = ibanExample
    /\ vaccount.AccountNumber = Str(10, "1", "7")
    /\ verr.isNil
    /\ verrR.isNil
    /\ Violations(ValidateResource([vaccount EXCEPT !.BankID = Str(3, "1", "7")])) = {MsgBankID}
    /\ Violations(ValidateResourceR([vaccount EXCEPT !.BankID = Str(3, "1", "7")])) = {MsgBankID}

\* the data of the body is there, and is not of the JSON type that
\* unmarshalPayload (an object), or unmarshalMultiPayload (an array), takes
WrongDataType(body, type) ==
    /\ TypeOf(body) = "object"
    /\ "data" \in DOMAIN ValueOf(body)
    /\ TypeOf(dataOf(body)) \notin {"null", type}

\* the value and the error, v, are an error and the zero value
ErrorAndZero(v, zero) == ~v[2].isNil /\ v[1] = zero

(* C19: for every body that is not well-formed JSON (the empty body       *)
(* included), or whose data has the wrong JSON type, unmarshalPayload and  *)
(* unmarshalMultiPayload return an error together with the zero value.     *)
C19_MalformedBodyRejected ==
    /\ (cstep = "payload" /\ (~WellFormed(creader) \/ WrongDataType(creader, "object")))
            => ErrorAndZero(cgot, ZeroPayload)
    /\ (cstep = "multipayload" /\ (~WellFormed(creader) \/ WrongDataType(creader, "array")))
            => ErrorAndZero(cgotMulti, ZeroMultiPayload)

\* the same of the bodies that do not start with a well-formed JSON value
C19_NoLeadingValueRejected ==
    /\ (cstep = "payload" /\ (TypeOf(creader) = "invalid" \/ WrongDataType(creader, "object")))
            => ErrorAndZero(cgot, ZeroPayload)
    /\ (cstep = "multipayload" /\ (TypeOf(creader) = "invalid" \/ WrongDataType(creader, "array")))
            => ErrorAndZero(cgotMulti, ZeroMultiPayload)

\* the optional fields of the attributes, by key on the wire and by name in
\* Resource
OptionalAttributes ==
    {<<"base_currency", "BaseCurrency">>, <<"bank_id", "BankID">>,
     <<"bank_id_code", "BankIDCode">>, <<"account_number", "AccountNumber">>,
     <<"bic", "BIC">>, <<"iban", "IBAN">>, <<"customer_id", "CustomerID">>,
     <<"alternative_names", "AlternativeNames">>,
     <<"account_classification", "AccountClassification">>,
     <<"joint_account", "JointAccount">>,
     <<"account_matching_opt_out", "AccountMatchingOptOut">>,
     <<"secondary_identification", "SecondaryIdentification">>,
     <<"switched", "Switched">>}

\* the optional fields of the links
OptionalLinks == {<<"first", "First">>, <<"next", "Next">>, <<"last", "Last">>}

\* the keys of the object that document j holds under key k
KeysUnder(j, k) == DOMAIN ValueOf(ValueOf(j)[k])

\* marshalPayload has rendered cp without the optional fields in attributes
\* and links that are empty, and, where omitLinks, without empty links
EmptyFieldsOmitted(attributes, omitLinks) ==
    (cstep = "marshalled" /\ cmerr.isNil) =>
        /\ \A f \in attributes :
              cp.Data.Attributes[f[2]] = ZeroResource[f[2]]
                  => f[1] \notin KeysUnder(ValueOf(creader).data, "attributes")
        /\ (omitLinks /\ cp.Links = ZeroLinks) => "links" \notin DOMAIN ValueOf(creader)
        /\ "links" \in DOMAIN ValueOf(creader) =>
              \A f \in OptionalLinks :
                 cp.Links[f[2]] = ZeroLinks[f[2]] => f[1] \notin KeysUnder(creader, "links")

(* C20: the JSON that marshalPayload renders holds no optional field whose *)
(* value is empty: none of the thirteen optional attributes (the          *)
(* alternative names among them), not the links of the payload, and none   *)
(* of first, next and last in the links.                                   *)
C20_EmptyOptionalFieldsOmitted == EmptyFieldsOmitted(OptionalAttributes, TRUE)

\* the same but for the alternative names and the links of the payload
C20_EmptyScalarFieldsOmitted ==
    EmptyFieldsOmitted(OptionalAttributes \ {<<"alternative_names", "AlternativeNames">>}, FALSE)

\* the Data that the body of request req holds, as a reader of the JSON
\* gets it
DataSent(req) == decodePayload(req.body)[1].Data

\* every string of record r is valid UTF-8
ValidUTF8Record(r) == ValidUTF8([ZeroPayload EXCEPT !.Data.Attributes = r])

\* every create request sent carries the type, the organisation ID of the
\* client, the version 0 and the ID of the call, and the record of the call
\* when the record is one of those in records
CreateRequestCarries(records) ==
    kop = "Create" =>
        \A i \in DOMAIN krequests :
            /\ DataSent(krequests[i]).Type = "accounts"
            /\ DataSent(krequests[i]).OrganisationID = kclient.OrganisationID
            /\ DataSent(krequests[i]).Version = 0
            /\ DataSent(krequests[i]).ID = kid
            /\ kid # ""
            /\ karg \in records => DataSent(krequests[i]).Attributes = karg

(* C21: every create request that Create hands to the transport carries   *)
(* the type "accounts", the organisation ID the client was constructed     *)
(* with, the version 0, the ID generated for the call, and attributes      *)
(* equal field for field to the record passed to Create.                   *)
C21_CreateRequestFields == CreateRequestCarries(CreateAccounts)

(* C21, amended: the same, the attributes being equal to the record when   *)
(* every string of the record is valid UTF-8.                              *)
C21_CreateRequestFieldsValidUTF8 ==
    CreateRequestCarries({r \in CreateAccounts : ValidUTF8Record(r)})

\* the create request of the complete record was sent, with the
\* organisation ID of the client and the record in it
C21_Witness ==
    /\ kop = "Create"
    /\ karg = FullResource
    /\ Len(krequests) = 1
    /\ kclient.OrganisationID = "orgid"
    /\ DataSent(krequests[1]).OrganisationID = "orgid"
    /\ DataSent(krequests[1]).Attributes = FullResource

(* C22: a call of Create, Fetch, List or Delete hands at most one request *)
(* to the HTTP client; a call that has got no response, or a response with *)
(* an error status, or a page that names further pages, has returned with  *)
(* that one request sent.                                                  *)
C22_AtMostOneRequest ==
    /\ Len(krequests) <= 1
    /\ kpc \in {"do", "return"} => Len(krequests) = 1
    /\ (kpc = "done" /\ kresp # NoResponse) => Len(krequests) = 1

\* List got a page whose links name a next page, and has returned it with
\* one request sent
C22_Witness ==
    /\ kpc = "done"
    /\ kop = "List"
    /\ kret.err.isNil
    /\ kret.value.Links.Next # ""
    /\ Len(krequests) = 1

\* the call has returned, and the service had answered its request
Answered(o) == kpc = "done" /\ kop = o /\ krequests # <<>>

\* the IDs of the elements of a []Data
IDsIn(data) == {data.elems[i].ID : i \in DOMAIN data.elems}

(* C23: against a service that stores what it is sent, Fetch of the ID of  *)
(* a payload that Create returned without error returns that payload and   *)
(* no error, and List of the first page, of a size that holds every        *)
(* resource created, returns no error and one element for each: as many    *)
(* elements as resources, and every ID among them.                         *)
C23_CreatedIsFetchedAndListed ==
    /\ (Answered("Fetch") /\ karg \in IDsOf(tpayloads)) =>
            kret = [value |-> PayloadOf(tpayloads, karg), err |-> nil]
    /\ (Answered("List") /\ karg[1] = 0 /\ karg[2] >= Cardinality(tpayloads)) =>
            /\ kret.err.isNil
            /\ Len(kret.value.Data.elems) = Cardinality(tpayloads)
            /\ IDsIn(kret.value.Data) = IDsOf(tpayloads)

\* two resources were created, and List has returned both
C23_Witness ==
    /\ Answered("List")
    /\ Cardinality(tpayloads) = 2
    /\ kret.err.isNil
    /\ Len(kret.value.Data.elems) = 2
    /\ IDsIn(kret.value.Data) = UUIDs

(* C24: once Delete has been called for a created resource with the       *)
(* version Create returned, Fetch of its ID returns an error; and once it  *)
(* has been called for every created resource, List returns no error and   *)
(* a Data of zero elements.                                                *)
C24_DeletedIsGone ==
    /\ (Answered("Fetch") /\ karg \in tdeleted) => ~kret.err.isNil
    /\ (Answered("List") /\ tpayloads = {} /\ tdeleted # {}) =>
            /\ kret.err.isNil
            /\ ~kret.value.Data.isNil
            /\ Len(kret.value.Data.elems) = 0

\* both resources were created and deleted, and List has returned no error
\* and no element
C24_Witness ==
    /\ Answered("List")
    /\ tdeleted = UUIDs
    /\ tpayloads = {}
    /\ kret.err.isNil
    /\ Len(kret.value.Data.elems) = 0

\* what fn(arg) returns when it runs alone
Alone(fn, arg) ==
    CASE fn = "ValidateResource" -> <<ValidateResourceR(arg)>>
      [] fn = "marshalPayload" -> marshalPayload(arg)
      [] fn = "unmarshalPayload" -> unmarshalPayload(arg)
      [] fn = "unmarshalMultiPayload" -> unmarshalMultiPayload(arg)

BodyOf(payload) == IF payload = NoReader THEN <<>> ELSE payload.bytes

\* the request carries exactly one value under the name, and it is this one
Carries(name, value) == hreq.Header[name] = <<value>>

(* C26: a request that addHeaders has decorated carries Host with the      *)
(* client's base URL, Date with the current time as the clock in GMT shows *)
(* it, and Accept; it carries Content-Type and Content-Length exactly when *)
(* its body has at least one byte, Content-Length then being the number of *)
(* bytes of the body; a nil and an empty body get neither.                 *)
C26_HeadersAdded ==
    hpc \in {"decorated", "sent"} =>
        /\ Carries("Host", HeaderClient.BaseURL)
        /\ Carries("Date", [day |-> hnow \div HoursInDay, hour |-> hnow % HoursInDay,
                            zone |-> "GMT"])
        /\ Carries("Accept", acceptHeaderValue)
        /\ IF Len(BodyOf(hpayload)) >= 1
           THEN /\ Carries("Content-Type", acceptHeaderValue)
                /\ Carries("Content-Length", ToString(Len(BodyOf(hpayload))))
           ELSE /\ hreq.Header["Content-Type"] = <<>>
                /\ hreq.Header["Content-Length"] = <<>>

\* a request with a body of three bytes, made in the last hour of the day,
\* carries the five headers, Content-Length 3
C26_Witness ==
    /\ hpc = "decorated"
    /\ hnow = 23
    /\ hpayload # NoReader
    /\ Len(BodyOf(hpayload)) = 3
    /\ HeaderGet(hreq.Header, "Content-Length") = "3"
    /\ HeaderGet(hreq.Header, "Date").zone = "GMT"

\* a request with an empty body that is not nil carries the three headers
\* only
C26_WitnessEmptyBody ==
    /\ hpc = "decorated"
    /\ hpayload = Reader("strings.Reader", <<>>)
    /\ hreq.Body = NoBody
    /\ HeaderGet(hreq.Header, "Accept") = acceptHeaderValue
    /\ HeaderGet(hreq.Header, "Content-Length") = ""

(* C30: addHeaders leaves the body of the request unread: when Client.do   *)
(* has decorated a request made of the buffer of marshalPayload and the    *)
(* HTTP client has read its body, the bytes read are all the bytes of the  *)
(* buffer, as many as Content-Length says.                                 *)
C30_BodyNotConsumed ==
    (hpc = "sent" /\ hpayload # NoReader /\ hpayload.kind = "bytes.Buffer") =>
        /\ hsent = hpayload.bytes
        /\ Len(hsent) >= 1 => HeaderGet(hreq.Header, "Content-Length") = ToString(Len(hsent))

\* the HTTP client has read three bytes from the body of a decorated
\* request made of a buffer
C30_Witness ==
    /\ hpc = "sent"
    /\ hpayload = Reader("bytes.Buffer", <<"{", "}", "}">>)
    /\ hsent = <<"{", "}", "}">>
    /\ hreq.Body.off = 3
    /\ HeaderGet(hreq.Header, "Content-Length") = "3"

\* what Decode made of the body that was read
Decoded == decodePayload(creader)[1]

(* C27: of a body that decodes without error, unmarshalPayload returns no  *)
(* error exactly when the decoded Data.Attributes is not the zero          *)
(* Resource; a decoded Data that is zero has zero Attributes and is        *)
(* reported as "Data is empty", not as "Data.Attributes is empty"; and     *)
(* every Payload returned without an error has Attributes that are not     *)
(* zero.                                                                   *)
C27_AcceptedIffAttributes ==
    cstep = "payload" =>
        /\ decodePayload(creader)[2].isNil =>
               /\ cgot[2].isNil <=> Decoded.Data.Attributes # ZeroResource
               /\ Decoded.Data = ZeroData =>
                      Decoded.Data.Attributes = ZeroResource /\ cgot[2] = ErrDataEmpty
               /\ (Decoded.Data # ZeroData /\ Decoded.Data.Attributes = ZeroResource) =>
                      cgot[2] = ErrAttributesEmpty
        /\ cgot[2].isNil => cgot[1].Data.Attributes # ZeroResource

\* a body whose data object is empty decoded without error and was
\* rejected for its empty Data
C27_Witness ==
    /\ cstep = "payload"
    /\ creader = DataDoc(EmptyObject)
    /\ decodePayload(creader)[2].isNil
    /\ Decoded.Data = ZeroData
    /\ cgot = <<ZeroPayload, ErrDataEmpty>>

\* a body with attributes and nothing else in its data was accepted
C27_WitnessAttributesOnly ==
    /\ cstep = "payload"
    /\ creader = DataDoc(JObject([attributes |-> encodeResource(MinimalResource)]))
    /\ cgot[2].isNil
    /\ cgot[1].Data.ID = ""
    /\ cgot[1].Data.Attributes = MinimalResource

\* the record that has the country, bank ID, bank ID code, account number,
\* BIC and IBAN of r and every other field of o
Elsewhere(r, o) ==
    [o EXCEPT !.Country = r.Country, !.BankID = r.BankID, !.BankIDCode = r.BankIDCode,
              !.AccountNumber = r.AccountNumber, !.BIC = r.BIC, !.IBAN = r.IBAN]

\* settings of the other fields: all set, and set to other values
OtherFields ==
    {FullResource,
     [FullResource EXCEPT !.Name = <<"other", "", "", "">>,
                          !.AlternativeNames = <<"", "", "">>,
                          !.BaseCurrency = "EUR", !.CustomerID = "", !.Status = "pending",
                          !.AccountClassification = "", !.SecondaryIdentification = "",
                          !.JointAccount = FALSE, !.AccountMatchingOptOut = FALSE,
                          !.Switched = FALSE]}

(* C28: a record that agrees with the validated one on Country, BankID,    *)
(* BankIDCode, AccountNumber, BIC and IBAN gets from each version of       *)
(* ValidateResource the result the validated one got, the same violations  *)
(* included, whatever its other fields hold.                               *)
C28_VerdictOfSixFields ==
    vdone =>
        \A o \in OtherFields :
            /\ ValidateResource(Elsewhere(vaccount, o)) = verr
            /\ ValidateResourceR(Elsewhere(vaccount, o)) = verrR

\* a British record without a BIC and with a bank ID code was validated;
\* with names, currency, status and flags set it fails the same check
C28_Witness ==
    /\ Validated("GB")
    /\ vaccount.BIC = "" /\ vaccount.BankIDCode = GBBankID
    /\ vaccount.Status = "" /\ Elsewhere(vaccount, FullResource).Status = "confirmed"
    /\ MsgBIC \in Violations(verrR)
    /\ ValidateResourceR(Elsewhere(vaccount, FullResource)) = verrR
    /\ ValidateResource(Elsewhere(vaccount, FullResource)) = verr

(* C29: the two versions of ValidateResource accept the same records: for  *)
(* every record, the list-and-join version returns nil exactly when the    *)
(* version of chained helper checks returns nil.                           *)
C29_VersionsAgree ==
    vdone => (verr.isNil <=> verrR.isNil)

\* the two versions agree on every record of a supported country other
\* than Hong Kong and Italy
C29_VersionsAgreeElsewhere ==
    (vdone /\ vaccount.Country \in SupportedCountries \ {"HK", "IT"}) =>
        (verr.isNil <=> verrR.isNil)

\* records on which the versions differ: of an unsupported country, of
\* Hong Kong, of Italy
C29_DifferOnUnsupported ==
    vdone /\ vaccount.Country \notin SupportedCountries /\ verr.isNil /\ ~verrR.isNil

C29_DifferOnHongKong == Validated("HK") /\ ~verr.isNil /\ verrR.isNil

C29_DifferOnItaly == Validated("IT") /\ (verr.isNil <=> ~verrR.isNil)

=============================================================================
